---- MODULE Spec2Model ----
(***************************************************************************)
(* PermaVid queue core: the `queue` and `settings` tables (db.rs), the     *)
(* user commands, the background scheduler loop with its download          *)
(* executor and artifact resolver, the upload handler and the Filemoon     *)
(* readiness poller (main.rs).                                             *)
(*                                                                         *)
(* One action is one critical section of the code (a scope holding the     *)
(* database mutex) together with the local computation that leads to it;   *)
(* network responses, process exits and file-system contents are inputs    *)
(* chosen with \E.  updated_at is not modelled: no handler reads it.       *)
(***************************************************************************)
EXTENDS Integers, Sequences, FiniteSets, TLC

VARIABLES
    queue,      \* table queue: item id -> row
    nextId,     \* number of ids handed out so far (Uuid::new_v4 is fresh)
    settings,   \* table settings as the AppSettings record get_settings builds
    sidecars,   \* the *.info.json files present in the download directory
    media,      \* the media files present in the download directory
    sched,      \* process_queue_background: position and locals of the loop
    readers,    \* detached stdout readers still alive (item ids)
    uploads,    \* trigger_upload calls in flight (set of records)
    polls,      \* readiness polls in flight (set of records)
    last        \* what the step just taken did or returned

vars == <<queue, nextId, settings, sidecars, media, sched, readers, uploads, polls, last>>

(***************************************************************************)
(* Bounds of the model.                                                    *)
(***************************************************************************)
MaxItems == 2       \* add_queue_item calls that insert a row
MaxTime == 2        \* added_at values are 1..MaxTime
MaxUploads == 2     \* trigger_upload calls in flight at once
MaxPolls == 2       \* readiness polls in flight at once

None == <<>>         \* Option::None, SQL NULL
Some(x) == <<x>>     \* Option::Some(x), a non-NULL column
Get(o) == o[1]

Ids == 1..MaxItems
Times == 1..MaxTime

(***************************************************************************)
(* URLs.  A URL is the string `text`; `reel` and `v` say whether the       *)
(* string holds a "/reel/<digits>" segment or a "?v=<digits>" parameter    *)
(* and with which digits (the two regexes of extract_facebook_video_id).   *)
(***************************************************************************)
Url(text, reel, v) == [text |-> text, reel |-> reel, v |-> v]

UrlPlain == Url("https://example.com/v/42", None, None)
UrlReel == Url("https://fb.com/reel/7", Some("7"), None)
UrlWatch == Url("https://fb.com/watch?v=7", None, Some("7"))
UrlOther == Url("https://example.com/v/43", None, None)

extract_facebook_video_id(url) ==
    IF url.reel # None THEN url.reel
    ELSE IF url.v # None THEN url.v
    ELSE None

(***************************************************************************)
(* Rows of the queue table.                                                *)
(***************************************************************************)
QueueItem(url, status, added_at) ==
    [url |-> url, status |-> status, message |-> None, title |-> None,
     filemoon_url |-> None, files_vc_url |-> None, encoding_progress |-> None,
     thumbnail_url |-> None, added_at |-> added_at, local_path |-> None]

Statuses ==
    {"queued", "downloading", "completed", "uploading", "transferring",
     "encoding", "encoded", "failed", "cancelled"}

Ret(op, arg, res) == [op |-> op, arg |-> arg, res |-> res]

(***************************************************************************)
(* db.rs: statements over the queue table.                                 *)
(***************************************************************************)
\* UPDATE queue SET status = ?, message = ? WHERE id = ?  (no row: no change)
update_item_status(q, id, status, message) ==
    IF id \in DOMAIN q
    THEN [q EXCEPT ![id].status = status, ![id].message = Some(message)]
    ELSE q

update_item_after_download(q, id, status, title, local_path, thumbnail_url, message) ==
    IF id \in DOMAIN q
    THEN [q EXCEPT ![id].status = status, ![id].title = title,
                   ![id].local_path = local_path,
                   ![id].thumbnail_url = thumbnail_url,
                   ![id].message = Some(message)]
    ELSE q

update_item_encoding_details(q, id, status, encoding_progress, message) ==
    IF id \in DOMAIN q
    THEN [q EXCEPT ![id].status = status,
                   ![id].encoding_progress = encoding_progress,
                   ![id].message = Some(message)]
    ELSE q

\* UPDATE of every column but local_path and added_at, from a QueueItem value
update_queue_item(q, id, item) ==
    IF id \in DOMAIN q
    THEN [q EXCEPT ![id] = [item EXCEPT !.local_path = q[id].local_path,
                                        !.added_at = q[id].added_at]]
    ELSE q

\* SELECT 1 FROM queue WHERE status IN (...) LIMIT 1
is_item_in_status(q, statuses) ==
    \E i \in DOMAIN q : q[i].status \in statuses

\* A mutant of get_next_queued_item: ORDER BY added_at DESC.
get_next_queued_item_newest(q) ==
    {i \in DOMAIN q :
        /\ q[i].status = "queued"
        /\ \A j \in DOMAIN q :
              q[j].status = "queued" => q[j].added_at <= q[i].added_at}

\* SELECT ... WHERE status = 'queued' ORDER BY added_at ASC LIMIT 1: the rows
\* the statement may return (rows of equal added_at are tied); {} is Ok(None).
get_next_queued_item(q) ==
    {i \in DOMAIN q :
        /\ q[i].status = "queued"
        /\ \A j \in DOMAIN q :
              q[j].status = "queued" => q[i].added_at <= q[j].added_at}

\* A mutant of clear_items_by_status: DELETE FROM queue, without the WHERE.
clear_items_by_status_all(q, status_types) ==
    IF status_types = {} THEN q ELSE <<>>

\* DELETE FROM queue WHERE status IN (...); an empty list returns at once
clear_items_by_status(q, status_types) ==
    IF status_types = {} THEN q
    ELSE [i \in {j \in DOMAIN q : q[j].status \notin status_types} |-> q[i]]

\* A mutant of get_items_for_status_check: the WHERE clause has lost its
\* status test, so every row with a provider reference is returned.
get_items_for_status_check_any_status(q, s) ==
    IF s.filemoon_api_key = None THEN {}
    ELSE {[id |-> i, filecode |-> Get(q[i].filemoon_url),
           api_key |-> Get(s.filemoon_api_key)] :
            i \in {j \in DOMAIN q : q[j].filemoon_url # None}}

\* SELECT q.id, q.filemoon_url, s.value FROM queue q JOIN settings s ON
\* s.key = 'filemoon_api_key' WHERE q.status IN ('transferring','encoding')
\* AND q.filemoon_url IS NOT NULL
get_items_for_status_check(q, s) ==
    IF s.filemoon_api_key = None THEN {}
    ELSE {[id |-> i, filecode |-> Get(q[i].filemoon_url),
           api_key |-> Get(s.filemoon_api_key)] :
            i \in {j \in DOMAIN q : /\ q[j].status \in {"transferring", "encoding"}
                                    /\ q[j].filemoon_url # None}}

\* A mutant of add_queue_item_error: the duplicate check only looks at rows
\* that are still active, so an archived URL can be added again.
add_queue_item_error_active_only(q, url, row) ==
    IF row = None \/ q[Get(row)].status = "encoded" THEN "ok"
    ELSE "already exists in the active queue"

\* A mutant of add_queue_item_error: the URL of an item that failed or was
\* cancelled can be added again.
add_queue_item_error_live_only(q, url, row) ==
    IF row = None \/ q[Get(row)].status \in {"failed", "cancelled"} THEN "ok"
    ELSE IF q[Get(row)].status = "encoded" THEN "has already been archived"
    ELSE "already exists in the active queue"

\* add_queue_item, the duplicate check: `row` is the row the statement
\* SELECT status FROM queue WHERE url = ? LIMIT 1 returned (None: no row).
add_queue_item_error(q, url, row) ==
    IF row = None THEN "ok"
    ELSE IF q[Get(row)].status = "encoded" THEN "has already been archived"
    ELSE "already exists in the active queue"

\* the rows that SELECT ... WHERE url = ? LIMIT 1 may return
url_rows(q, url) ==
    IF \E i \in DOMAIN q : q[i].url = url
    THEN {Some(i) : i \in {j \in DOMAIN q : q[j].url = url}}
    ELSE {None}

\* add_queue_item: the table after the call.  local_path is not among the
\* inserted columns.
add_queue_item(q, id, item, row) ==
    IF add_queue_item_error(q, item.url, row) = "ok"
    THEN q @@ (id :> [item EXCEPT !.local_path = None])
    ELSE q

(***************************************************************************)
(* File names are sequences of tokens; a token is one character or a run   *)
(* of letters and digits ("42", "mp4").  A path is <<directory, name>>;    *)
(* a relative path has directory "".                                       *)
(***************************************************************************)
DownloadDir == "/dl"

Alnum == {"42", "43", "7", "mp4", "T", "C", "UnknownChannel", "by"}
Problematic ==
    {"<", ">", ":", "\"", "/", "\\", "|", "?", "*", "#", "%", "&", "{", "}",
     "$", "!", "@", "+", "="}
Whitespace == {" "}
TakeLimit == 200

RECURSIVE TrimStart(_, _)
TrimStart(name, strip) ==
    IF name # <<>> /\ Head(name) \in strip THEN TrimStart(Tail(name), strip) ELSE name

RECURSIVE TrimEnd(_, _)
TrimEnd(name, strip) ==
    IF name # <<>> /\ name[Len(name)] \in strip
    THEN TrimEnd(SubSeq(name, 1, Len(name) - 1), strip)
    ELSE name

\* sanitize_filename: map every character, trim, keep the first 200.  The
\* characters of the model are those of the sets above; the back quote, the
\* full-width characters and the control characters of the source are not
\* among them.
sanitize_filename(name) ==
    LET mapped == [k \in 1..Len(name) |->
                     IF name[k] \in Problematic THEN "_"
                     ELSE IF name[k] \in Alnum \/ name[k] \in {".", "-", "_"} THEN name[k]
                     ELSE "_"]
        strip == Whitespace \cup {".", "_"}
        trimmed == TrimEnd(TrimStart(mapped, strip), strip)
    IN  SubSeq(trimmed, 1, IF Len(trimmed) < TakeLimit THEN Len(trimmed) ELSE TakeLimit)

\* Path::new(dir).join(rel): an absolute `rel` replaces `dir`
PathJoin(dir, rel) == IF rel[1] = "" THEN <<dir, rel[2]>> ELSE rel

\* Path::exists for the paths of the model: only the download directory has files
PathExists(path, files) == path[1] = DownloadDir /\ path[2] \in files

(***************************************************************************)
(* A sidecar <stem>.info.json: `ok` says that it can be read and parsed;   *)
(* the other fields are the JSON fields the resolver reads.                *)
(***************************************************************************)
Sidecar(stem, ok, webpage_url, original_url, filename, title, ext, channel) ==
    [stem |-> stem, ok |-> ok, webpage_url |-> webpage_url,
     original_url |-> original_url, filename |-> filename, title |-> title,
     thumbnail |-> None, ext |-> ext, channel |-> channel]

\* info.get("webpage_url").or_else(|| info.get("original_url"))
json_url(info) ==
    IF info.webpage_url # None THEN info.webpage_url ELSE info.original_url

\* A mutant of urls_match: only the full URL strings are compared.
urls_match_text_only(item_original_url, info) ==
    IF json_url(info) = None THEN FALSE
    ELSE Get(json_url(info)) = item_original_url

\* main.rs 1214-1235
urls_match(item_original_url, info) ==
    IF json_url(info) = None THEN FALSE
    ELSE LET j_url == Get(json_url(info))
             original_id == extract_facebook_video_id(item_original_url)
             json_id == extract_facebook_video_id(j_url)
         IN  IF original_id # None /\ json_id # None /\ original_id = json_id
             THEN TRUE
             ELSE j_url = item_original_url

\* A mutant of matching_sidecars: the scan stops at the first sidecar it can
\* parse, without comparing URLs.
matching_sidecars_any(dir_sidecars, item_original_url) ==
    {sc \in dir_sidecars : sc.ok}

\* the sidecars a scan of the directory can stop at: any readable, parsable
\* sidecar that matches (read_dir yields the entries in no particular order)
matching_sidecars(dir_sidecars, item_original_url) ==
    {sc \in dir_sidecars : sc.ok /\ urls_match(item_original_url, sc)}

\* "%(title)s by %(channel)s.%(ext)s" with the three fields substituted
constructed_filename(title, channel, ext) ==
    sanitize_filename(title) \o <<" ", "by", " ">> \o sanitize_filename(channel)
        \o <<".", ext>>

\* json_path_str.replace(".info.json", "." + ext)
video_path_from_json(download_dir, stem, ext) ==
    <<download_dir, stem \o <<".", ext>>>>

\* A mutant of actual_video_path: the path of '_filename' is stored whether
\* or not the file exists.
actual_video_path_unchecked(download_dir, info, files) ==
    IF info.filename # None
    THEN Some(PathJoin(download_dir, Get(info.filename)))
    ELSE None

\* main.rs 1247-1291: the video path the matching sidecar leads to
actual_video_path(download_dir, info, files) ==
    IF info.filename # None
       /\ PathExists(PathJoin(download_dir, Get(info.filename)), files)
    THEN Some(PathJoin(download_dir, Get(info.filename)))
    ELSE IF info.title # None /\ info.ext # None
    THEN LET channel == IF info.channel # None THEN Get(info.channel)
                        ELSE <<"UnknownChannel">>
             constructed_path ==
                 <<download_dir,
                   constructed_filename(Get(info.title), channel, Get(info.ext))>>
             from_json == video_path_from_json(download_dir, info.stem, Get(info.ext))
         IN  IF PathExists(constructed_path, files) THEN Some(constructed_path)
             ELSE IF PathExists(from_json, files) THEN Some(from_json)
             ELSE None
    ELSE None

(***************************************************************************)
(* Settings.                                                               *)
(***************************************************************************)
AppSettings(fm_key, fvc_key, directory, delete, auto, target) ==
    [filemoon_api_key |-> fm_key, files_vc_api_key |-> fvc_key,
     download_directory |-> directory, delete_after_upload |-> delete,
     auto_upload |-> auto, upload_target |-> target]

SettingsKeys ==
    {"filemoon_api_key", "files_vc_api_key", "download_directory",
     "delete_after_upload", "auto_upload", "upload_target"}

\* save_settings: one upsert for every field that is Some, in one transaction
save_settings(table, s) ==
    [k \in SettingsKeys |-> IF s[k] # None THEN s[k] ELSE table[k]]

\* Some(key) if !key.is_empty()
KeyConfigured(key) == key # None /\ Get(key) # ""

(***************************************************************************)
(* User commands.  Every command leaves its Result in `last`.              *)
(***************************************************************************)
AddQueueItem(url, added_at) ==
    \E row \in url_rows(queue, url) :
        LET err == add_queue_item_error(queue, url, row) IN
        /\ err = "ok" => nextId < MaxItems
        /\ queue' = add_queue_item(queue, nextId + 1,
                                   QueueItem(url, "queued", added_at), row)
        /\ nextId' = IF err = "ok" THEN nextId + 1 ELSE nextId
        /\ last' = Ret("add_queue_item", url, err)
        /\ UNCHANGED <<settings, sidecars, media, sched, readers, uploads, polls>>

\* A mutant of retry_item_ok: any failed item can be retried.
retry_item_ok_any_failed(item) ==
    item.status = "failed"

\* retry_item, the eligibility test
retry_item_ok(item) ==
    item.status = "failed" /\ item.filemoon_url = None /\ item.files_vc_url = None

retry_item(q, id) ==
    IF id \notin DOMAIN q THEN [queue |-> q, res |-> "not found"]
    ELSE IF retry_item_ok(q[id])
    THEN [queue |-> update_item_status(q, id, "queued", "Retrying..."), res |-> "ok"]
    ELSE [queue |-> q, res |-> "not in a retryable failed state"]

RetryItem(id) ==
    /\ queue' = retry_item(queue, id).queue
    /\ last' = Ret("retry_item", id, retry_item(queue, id).res)
    /\ UNCHANGED <<nextId, settings, sidecars, media, sched, readers, uploads, polls>>

\* A mutant of cancel_item: only an item that still waits can be cancelled.
cancel_item_queued_only(q, id) ==
    IF id \notin DOMAIN q THEN [queue |-> q, res |-> "not found"]
    ELSE IF q[id].status # "queued" THEN [queue |-> q, res |-> "not cancellable"]
    ELSE [queue |-> update_item_status(q, id, "cancelled", "Cancelled by user"),
          res |-> "ok"]

cancel_item(q, id) ==
    IF id \notin DOMAIN q THEN [queue |-> q, res |-> "not found"]
    ELSE [queue |-> update_item_status(q, id, "cancelled", "Cancelled by user"),
          res |-> "ok"]

CancelItem(id) ==
    /\ queue' = cancel_item(queue, id).queue
    /\ last' = Ret("cancel_item", id, cancel_item(queue, id).res)
    /\ UNCHANGED <<nextId, settings, sidecars, media, sched, readers, uploads, polls>>

ClearCompletedItems(status_types) ==
    /\ queue' = clear_items_by_status(queue, status_types)
    /\ last' = Ret("clear_completed_items", status_types, "ok")
    /\ UNCHANGED <<nextId, settings, sidecars, media, sched, readers, uploads, polls>>

(***************************************************************************)
(* process_queue_background.  sched.pc names the next critical section:    *)
(*   "scope1"  busy check and selection (971-998)                          *)
(*   "scope2"  settings, download directory, mark downloading (1009-1051)  *)
(*   "spawn"   cmd.spawn() (1084)                                          *)
(*   "wait"    child.wait() and everything after it (1131-1363)            *)
(*   "check"   the else branch: readiness polls (1370-1401)                *)
(*   "sleep"   sleep(sleep_duration) (1404-1405)                           *)
(***************************************************************************)
Sched(pc, item, long) == [pc |-> pc, item |-> item, should_sleep_long |-> long]

DbResults == {"ok", "err"}

\* lines 976-982: a failed query counts as "nothing is being processed"
is_already_processing(q, db) ==
    IF db = "ok" THEN is_item_in_status(q, {"downloading", "uploading"}) ELSE FALSE

\* scope 1, when its two queries end as db1 (is_item_in_status) and db2
\* (get_next_queued_item)
SchedScope1Db(db1, db2) ==
    /\ sched.pc = "scope1"
    /\ IF ~is_already_processing(queue, db1) /\ db2 = "ok"
          /\ get_next_queued_item(queue) # {}
       THEN \E i \in get_next_queued_item(queue) :
              /\ sched' = Sched("scope2", Some([id |-> i, url |-> queue[i].url]), FALSE)
              /\ last' = Ret("scope1", Some(i), "picked")
       ELSE /\ sched' = Sched("check", None, TRUE)
            /\ last' = Ret("scope1", None,
                           IF is_already_processing(queue, db1) THEN "busy"
                           ELSE "nothing queued")
    /\ UNCHANGED <<queue, nextId, settings, sidecars, media, readers, uploads, polls>>

\* scope 1; db_results are the outcomes its queries can have
SchedScope1(db_results) ==
    \E db1 \in db_results, db2 \in db_results : SchedScope1Db(db1, db2)

\* lines 1023-1037: the directory setting, else the platform's default
download_dir(s, default_dir) ==
    IF s.download_directory # None /\ Get(s.download_directory) # ""
    THEN Get(s.download_directory)
    ELSE IF default_dir # None THEN Get(default_dir) ELSE ""

\* scope 2, when dirs::download_dir() gives default_dir, create_dir_all
\* ends as mkdir and the database calls end as db
SchedScope2Io(default_dir, mkdir, db) ==
    /\ sched.pc = "scope2"
    /\ LET id == Get(sched.item).id
           dir == download_dir(settings, default_dir)
           res == IF dir = "" THEN "no download directory"
                  ELSE IF mkdir = "err" THEN "create_dir_all failed"
                  ELSE IF db = "err" THEN "db error"
                  ELSE "downloading"
       IN  /\ queue' = IF res = "downloading"
                       THEN update_item_status(queue, id, "downloading",
                                               "Download starting...")
                       ELSE IF res = "db error" THEN queue
                       ELSE update_item_status(queue, id, "failed", res)
           /\ sched' = [sched EXCEPT !.pc = IF res = "downloading" THEN "spawn"
                                             ELSE "sleep"]
           /\ last' = Ret("scope2", id, res)
    /\ UNCHANGED <<nextId, settings, sidecars, media, readers, uploads, polls>>

DefaultDirs == {None, Some(DownloadDir)}

SchedScope2 ==
    \E default_dir \in DefaultDirs, mkdir \in DbResults, db \in DbResults :
        SchedScope2Io(default_dir, mkdir, db)

SchedSpawn ==
    /\ sched.pc = "spawn"
    /\ \E spawned \in BOOLEAN :
         LET id == Get(sched.item).id IN
         /\ queue' = IF spawned THEN queue
                     ELSE update_item_status(queue, id, "failed", "Failed to spawn yt-dlp")
         /\ readers' = IF spawned THEN readers \cup {id} ELSE readers
         /\ sched' = [sched EXCEPT !.pc = IF spawned THEN "wait" ELSE "sleep"]
         /\ last' = Ret("spawn", id, IF spawned THEN "ok" ELSE "err")
    /\ UNCHANGED <<nextId, settings, sidecars, media, uploads, polls>>

\* the stdout reader task (1097-1117): one progress line
ReaderLine(id) ==
    /\ id \in readers
    /\ queue' = update_item_status(queue, id, "downloading", "Downloading: n%")
    /\ last' = Ret("stdout", id, "progress")
    /\ UNCHANGED <<nextId, settings, sidecars, media, sched, readers, uploads, polls>>

\* the reader ends when the pipe is closed and drained, after the process exit
ReaderEof(id) ==
    /\ id \in readers
    /\ ~(sched.pc = "wait" /\ Get(sched.item).id = id)
    /\ readers' = readers \ {id}
    /\ last' = Ret("stdout", id, "eof")
    /\ UNCHANGED <<queue, nextId, settings, sidecars, media, sched, uploads, polls>>

(***************************************************************************)
(* trigger_upload.  A call in flight is a record: the item id, the locals  *)
(* the handler keeps (item.status, local_path_str, settings_clone,         *)
(* success, final_message), the request it is waiting for (pc) and the     *)
(* provider requests it has sent so far (calls).                           *)
(*   "start"       spawned by the scheduler, not yet run                   *)
(*   "precheck"    after scope 1 (490-521), before the existence check     *)
(*   "fm_server"   waiting for GET api/upload/server (555-596)             *)
(*   "fm_upload"   waiting for the POST to the upload server (618-691)     *)
(*   "fvc_upload"  waiting for POST api.files.vc/upload (730-778)          *)
(***************************************************************************)
UploadTask(id, pc, status, local_path, s) ==
    [id |-> id, pc |-> pc, status |-> status, local_path |-> local_path,
     settings_clone |-> s,
     success |-> FALSE, final_message |-> "Upload status unknown", calls |-> <<>>]

\* what one step of the handler leaves behind: the tables, the files, the
\* call if it goes on (next) and its return value if it returns (ret)
Step(q, files, next, ret) == [queue |-> q, media |-> files, next |-> next, ret |-> ret]

\* settings_clone.upload_target.clone().unwrap_or_else(|| "filemoon")
upload_target(s) == IF s.upload_target # None THEN Get(s.upload_target) ELSE "filemoon"

\* A mutant of upload_status_ok: an item that is still being fetched passes.
upload_status_ok_any(status) ==
    status \in {"completed", "encoded", "queued", "downloading"}

\* line 503
upload_status_ok(status) == status \in {"completed", "encoded"}

\* Scope 1 (490-521): look the item up, check it, mark it uploading
trigger_upload_scope1(q, s, files, id) ==
    IF id \notin DOMAIN q THEN Step(q, files, None, Some("Item not found"))
    ELSE IF ~upload_status_ok(q[id].status)
    THEN Step(q, files, None, Some("Item is not in a completed state"))
    ELSE IF q[id].local_path = None
    THEN Step(q, files, None, Some("Local file path not found for item"))
    ELSE Step(update_item_status(q, id, "uploading", "Starting upload..."), files,
              Some(UploadTask(id, "precheck", q[id].status, Get(q[id].local_path), s)),
              None)

\* lines 781-794
upload_finish(q, files, t) ==
    IF t.success
    THEN Step(q,
              IF t.settings_clone.delete_after_upload = Some("true")
              THEN files \ {t.local_path[2]} ELSE files,
              None, Some("ok"))
    ELSE Step(q, files, None, Some(t.final_message))

\* lines 695-730: the Files.vc key, File::open, then the POST is sent
upload_files_vc(q, files, t, io) ==
    IF ~KeyConfigured(t.settings_clone.files_vc_api_key)
    THEN Step(update_item_status(q, t.id, "failed", "Files.vc API key not configured"),
              files, None, Some("Files.vc API key not configured"))
    ELSE IF ~(io = "ok" /\ PathExists(t.local_path, files))
    THEN Step(update_item_status(q, t.id, "failed", "Failed to open file"),
              files, None, Some("Failed to open file"))
    ELSE Step(q, files,
              Some([t EXCEPT !.pc = "fvc_upload",
                             !.calls = Append(@, "files_vc upload")]), None)

\* A mutant of upload_precheck: a missing file is reported, but the item is
\* left as it is.
upload_precheck_keeps_status(q, files, t, io) ==
    IF ~PathExists(t.local_path, files)
    THEN Step(q, files, None, Some("Local file does not exist"))
    ELSE IF upload_target(t.settings_clone) \in {"filemoon", "both"}
    THEN IF ~KeyConfigured(t.settings_clone.filemoon_api_key)
         THEN Step(update_item_status(q, t.id, "failed", "Filemoon API key not configured"),
                   files, None, Some("Filemoon API key not configured"))
         ELSE Step(q, files,
                   Some([t EXCEPT !.pc = "fm_server",
                                  !.calls = Append(@, "filemoon server")]), None)
    ELSE IF upload_target(t.settings_clone) = "files_vc"
    THEN upload_files_vc(q, files, t, io)
    ELSE upload_finish(q, files, t)

\* lines 523-558: the existence check, the Filemoon key, the first request
upload_precheck(q, files, t, io) ==
    IF ~PathExists(t.local_path, files)
    THEN Step(update_item_status(q, t.id, "failed", "Local file not found"),
              files, None, Some("Local file does not exist"))
    ELSE IF upload_target(t.settings_clone) \in {"filemoon", "both"}
    THEN IF ~KeyConfigured(t.settings_clone.filemoon_api_key)
         THEN Step(update_item_status(q, t.id, "failed", "Filemoon API key not configured"),
                   files, None, Some("Filemoon API key not configured"))
         ELSE Step(q, files,
                   Some([t EXCEPT !.pc = "fm_server",
                                  !.calls = Append(@, "filemoon server")]), None)
    ELSE IF upload_target(t.settings_clone) = "files_vc"
    THEN upload_files_vc(q, files, t, io)
    ELSE upload_finish(q, files, t)

FmServerResponses == {"ok", "api error", "parse error", "request failed"}

\* lines 559-621: the answer to the upload-server request, fs::read, the POST
upload_fm_server(q, files, t, resp, io) ==
    IF resp # "ok"
    THEN Step(update_item_status(q, t.id, "failed", "Filemoon GetServer: " \o resp),
              files, None, Some("Filemoon GetServer: " \o resp))
    ELSE IF ~(io = "ok" /\ PathExists(t.local_path, files))
    THEN Step(q, files, None, Some("Failed to read file"))
    ELSE Step(q, files,
              Some([t EXCEPT !.pc = "fm_upload",
                             !.calls = Append(@, "filemoon upload")]), None)

FmUploadResponses == {"ok", "api error", "parse error", "body error", "request failed"}
FileCodes == {"abc123"}

\* A mutant of store_reference: the row is written from a new QueueItem that
\* holds the url and the reference only.
store_reference_fresh(q, id, status, message, column, value) ==
    LET q1 == update_item_status(q, id, status, message) IN
    update_queue_item(q1, id, [QueueItem(q1[id].url, status, q1[id].added_at)
                                   EXCEPT ![column] = Some(value)])

\* lines 637-643 and 739-745: the status, then the reference through
\* get_item_by_id(..).unwrap() and update_queue_item
store_reference(q, id, status, message, column, value) ==
    LET q1 == update_item_status(q, id, status, message) IN
    update_queue_item(q1, id, [q1[id] EXCEPT ![column] = Some(value)])

\* the part of trigger_upload after the Filemoon block (695, 781)
upload_after_filemoon(q, files, t, io) ==
    IF upload_target(t.settings_clone) = "files_vc"
       \/ (upload_target(t.settings_clone) = "both" /\ ~t.success)
    THEN upload_files_vc(q, files, t, io)
    ELSE upload_finish(q, files, t)

\* lines 622-691: the answer to the file POST
upload_fm_upload(q, files, t, resp, filecode, io) ==
    IF resp = "ok"
    THEN IF t.id \notin DOMAIN q
         THEN Step(q, files, None, Some("panicked"))
         ELSE upload_after_filemoon(
                  store_reference(q, t.id, "transferring",
                                  "Filemoon: Awaiting encoding...", "filemoon_url",
                                  filecode),
                  files,
                  [t EXCEPT !.success = TRUE,
                            !.final_message = "Upload to Filemoon successful"],
                  io)
    ELSE upload_after_filemoon(
             update_item_status(q, t.id, "failed", "Filemoon Upload: " \o resp),
             files, [t EXCEPT !.final_message = "Filemoon Upload: " \o resp], io)

FvcUploadResponses == {"ok", "api error", "parse error", "request failed"}
FileUrls == {"https://files.vc/f1"}

\* line 741: the status written when Files.vc accepted the file
files_vc_success_status == "uploaded"

\* lines 731-779: the answer of Files.vc
upload_fvc_upload(q, files, t, resp, file_url) ==
    IF resp = "ok"
    THEN IF t.id \notin DOMAIN q
         THEN Step(q, files, None, Some("panicked"))
         ELSE upload_finish(
                  store_reference(q, t.id, files_vc_success_status, "Files.vc: url",
                                  "files_vc_url", file_url),
                  files,
                  [t EXCEPT !.success = TRUE,
                            !.final_message = "Upload to Files.vc successful"])
    ELSE upload_finish(
             update_item_status(q, t.id, "failed", "Files.vc: " \o resp),
             files, [t EXCEPT !.final_message = "Files.vc: " \o resp])

\* what a step of a trigger_upload call did: the part of the handler that
\* ran (part), the Result if the call returned ("pending" if it goes on) and
\* the requests the call has sent so far
UploadRet(id, part, calls, res) ==
    [op |-> "trigger_upload", arg |-> id, part |-> part, res |-> res, calls |-> calls]

\* the effect of one step of the call t ({}: the call starts here)
UploadApply(id, part, t, step) ==
    /\ queue' = step.queue
    /\ media' = step.media
    /\ uploads' = (uploads \ t) \cup (IF step.next # None THEN {Get(step.next)} ELSE {})
    /\ last' = UploadRet(id, part,
                         IF step.next # None THEN Get(step.next).calls
                         ELSE IF t = {} THEN <<>>
                         ELSE (CHOOSE x \in t : TRUE).calls,
                         IF step.ret # None THEN Get(step.ret) ELSE "pending")
    /\ UNCHANGED <<nextId, settings, sidecars, readers, sched, polls>>

\* the command trigger_upload: scope 1 runs as the command arrives
TriggerUpload(id) ==
    /\ Cardinality(uploads) < MaxUploads
    /\ UploadApply(id, "scope1", {}, trigger_upload_scope1(queue, settings, media, id))

\* the upload task the scheduler spawned (1356-1361) runs scope 1
UploadStart(t) ==
    /\ t \in uploads /\ t.pc = "start"
    /\ UploadApply(t.id, "scope1", {t},
                   trigger_upload_scope1(queue, settings, media, t.id))

IoResults == {"ok", "err"}

UploadPrecheck(t) ==
    /\ t \in uploads /\ t.pc = "precheck"
    /\ \E io \in IoResults :
         UploadApply(t.id, "precheck", {t}, upload_precheck(queue, media, t, io))

UploadFmServer(t) ==
    /\ t \in uploads /\ t.pc = "fm_server"
    /\ \E resp \in FmServerResponses, io \in IoResults :
         UploadApply(t.id, "fm_server", {t},
                     upload_fm_server(queue, media, t, resp, io))

UploadFmUpload(t) ==
    /\ t \in uploads /\ t.pc = "fm_upload"
    /\ \E resp \in FmUploadResponses, filecode \in FileCodes, io \in IoResults :
         UploadApply(t.id, "fm_upload", {t},
                     upload_fm_upload(queue, media, t, resp, filecode, io))

UploadFvcUpload(t) ==
    /\ t \in uploads /\ t.pc = "fvc_upload"
    /\ \E resp \in FvcUploadResponses, file_url \in FileUrls :
         UploadApply(t.id, "fvc_upload", {t},
                     upload_fvc_upload(queue, media, t, resp, file_url))

(***************************************************************************)
(* The readiness poller.  A provider response is a record: `kind` says     *)
(* whether the request failed, the body was not JSON of the expected shape *)
(* or a JSON body arrived; then the HTTP status class, the API status and  *)
(* the result.                                                             *)
(***************************************************************************)
Response(kind, http_ok, status, result) ==
    [kind |-> kind, http_ok |-> http_ok, status |-> status, result |-> result]

FileInfo(file_code, status, canplay) ==
    [file_code |-> file_code, status |-> status, canplay |-> canplay]

HttpOk == 200
Playable == 1
ProgressDone == 100

\* check_filemoon_file_info (867-938): Ok(true), Ok(false) or Err.  The
\* result array holds at most one entry for a file code.
check_filemoon_file_info(resp, filecode) ==
    IF resp.kind # "json" THEN "err"
    ELSE IF ~(resp.http_ok /\ resp.status = HttpOk) THEN "err"
    ELSE IF resp.result = None THEN "err"
    ELSE IF ~(\E r \in Get(resp.result) : r.file_code = filecode) THEN "err"
    ELSE IF \E r \in Get(resp.result) :
               /\ r.file_code = filecode
               /\ r.status = HttpOk /\ r.canplay = Some(Playable)
    THEN "ready"
    ELSE "not ready"

InfoResponses(filecode) ==
    {Response("request failed", FALSE, 0, None),
     Response("parse error", TRUE, 0, None),
     Response("json", FALSE, 500, None),
     Response("json", TRUE, HttpOk, None),
     Response("json", TRUE, HttpOk, Some({FileInfo("other", HttpOk, Some(Playable))})),
     Response("json", TRUE, HttpOk, Some({FileInfo(filecode, HttpOk, Some(0))})),
     Response("json", TRUE, HttpOk, Some({FileInfo(filecode, HttpOk, None)})),
     Response("json", TRUE, HttpOk, Some({FileInfo(filecode, 404, Some(Playable))})),
     Response("json", TRUE, HttpOk, Some({FileInfo(filecode, HttpOk, Some(Playable))}))}

\* str::to_uppercase on the status strings of the model
to_uppercase(str) ==
    CASE str = "encoding" -> "ENCODING"
      [] str = "finished" -> "FINISHED"
      [] OTHER -> str

\* str::parse::<i32>().ok() on the progress strings of the model
parse_i32(str) ==
    CASE str = "0" -> Some(0)
      [] str = "40" -> Some(40)
      [] str = "100" -> Some(100)
      [] str = "150" -> Some(150)
      [] str = "-5" -> Some(0 - 5)
      [] OTHER -> None

EncodingStatus(status, progress) == [status |-> status, progress |-> progress]

\* A mutant of new_db_status: a file that is still encoding counts as done.
new_db_status_eager(api_status) ==
    CASE api_status \in {"ENCODING", "FINISHED", "ACTIVE"} -> "encoded"
      [] api_status = "ERROR" -> "failed"
      [] OTHER -> "transferring"

\* lines 818-823
new_db_status(api_status) ==
    CASE api_status = "ENCODING" -> "encoding"
      [] api_status \in {"FINISHED", "ACTIVE"} -> "encoded"
      [] api_status = "ERROR" -> "failed"
      [] OTHER -> "transferring"

\* check_filemoon_status (798-862): "update" with the row values to write,
\* "respawn" (a body without result: file/info is checked once more, detached)
\* or "nothing"
check_filemoon_status(resp) ==
    IF resp.kind # "json" THEN [do |-> "nothing"]
    ELSE IF ~(resp.http_ok /\ resp.status = HttpOk) THEN [do |-> "nothing"]
    ELSE IF resp.result = None THEN [do |-> "respawn"]
    ELSE LET result == Get(resp.result)
             api_status == to_uppercase(result.status)
             progress == IF result.progress = None THEN None
                         ELSE parse_i32(Get(result.progress))
         IN  [do |-> "update", api_status |-> api_status,
              status |-> new_db_status(api_status), progress |-> progress]

ApiStatuses == {"ENCODING", "encoding", "PENDING", "FINISHED", "ACTIVE", "ERROR", "OK"}
ProgressStrings == {None, Some("40"), Some("100"), Some("150"), Some("40.5")}

StatusResponses ==
    {Response("request failed", FALSE, 0, None),
     Response("parse error", TRUE, 0, None),
     Response("json", FALSE, 500, None),
     Response("json", TRUE, HttpOk, None)}
    \cup {Response("json", TRUE, HttpOk, Some(EncodingStatus(st, pr))) :
            st \in ApiStatuses, pr \in ProgressStrings}

Poll(id, filecode, api_key, pc) ==
    [id |-> id, filecode |-> filecode, api_key |-> api_key, pc |-> pc,
     info |-> "pending", status_calls |-> 0]

\* A mutant of check_filemoon_readiness: no fallback after a failed file/info.
check_filemoon_readiness_no_fallback(info) ==
    IF info = "not ready" THEN "status" ELSE "done"

\* A mutant of check_filemoon_readiness: encoding/status is always asked.
check_filemoon_readiness_always_status(info) == "status"

\* check_filemoon_readiness (942-960): what follows the file/info result
check_filemoon_readiness(info) ==
    IF info = "ready" THEN "done" ELSE "status"

\* what a step of a poll did.  op is "check_filemoon_readiness" when the
\* cycle ends with the step, "file_info" when the cycle goes on to
\* encoding/status, "file_info_only" for the detached check; res is what
\* file/info said, status_calls how often the cycle asked encoding/status,
\* answer what that said, resp the response the step read.
PollRet(op, p, info, status_calls, answer, resp) ==
    [op |-> op, arg |-> p.id, filecode |-> p.filecode, res |-> info,
     status_calls |-> status_calls, answer |-> answer, resp |-> resp]

file_info_write(q, id, info) ==
    IF info = "ready"
    THEN update_item_encoding_details(q, id, "encoded", Some(ProgressDone),
                                      "Filemoon status: Ready (canplay=1)")
    ELSE q

\* file/info answers a poll (pc "file_info") or the detached check that
\* check_filemoon_status spawned (pc "info_only")
PollFileInfo(p) ==
    /\ p \in polls /\ p.pc \in {"file_info", "info_only"}
    /\ \E resp \in InfoResponses(p.filecode) :
         LET info == check_filemoon_file_info(resp, p.filecode)
             goes_on == p.pc = "file_info" /\ check_filemoon_readiness(info) = "status"
         IN  /\ queue' = file_info_write(queue, p.id, info)
             /\ polls' = (polls \ {p}) \cup
                    (IF goes_on
                     THEN {[p EXCEPT !.pc = "status", !.info = info,
                                     !.status_calls = @ + 1]}
                     ELSE {})
             /\ last' = PollRet(IF goes_on THEN "file_info"
                                ELSE IF p.pc = "info_only" THEN "file_info_only"
                                ELSE "check_filemoon_readiness",
                                p, info,
                                IF goes_on THEN p.status_calls + 1 ELSE p.status_calls,
                                [do |-> "not asked"], resp)
    /\ UNCHANGED <<nextId, settings, sidecars, media, sched, readers, uploads>>

PollStatus(p) ==
    /\ p \in polls /\ p.pc = "status"
    /\ \E resp \in StatusResponses :
         LET answer == check_filemoon_status(resp) IN
         /\ queue' = IF answer.do = "update"
                     THEN update_item_encoding_details(
                              queue, p.id, answer.status, answer.progress,
                              "Filemoon status: " \o answer.api_status)
                     ELSE queue
         /\ polls' = (polls \ {p}) \cup
                (IF answer.do = "respawn"
                 THEN {Poll(p.id, p.filecode, p.api_key, "info_only")}
                 ELSE {})
         /\ last' = PollRet("check_filemoon_readiness", p, p.info, p.status_calls,
                            answer, resp)
    /\ UNCHANGED <<nextId, settings, sidecars, media, sched, readers, uploads>>

(***************************************************************************)
(* The scheduler, continued: the end of a download and the poll sweep.     *)
(***************************************************************************)
\* what the extractor left in the download directory when it exited
Wrote(new_sidecars, new_media) == [sidecars |-> new_sidecars, media |-> new_media]

\* a file written under an existing name replaces the old file
write_sidecars(dir_sidecars, new_sidecars) ==
    {sc \in dir_sidecars : \A n \in new_sidecars : n.stem # sc.stem} \cup new_sidecars

NoSettings == AppSettings(None, None, None, None, None, None)

\* lines 1351-1362: the upload task spawned after a successful download
auto_upload(s, id) ==
    IF s.auto_upload = Some("true")
    THEN {UploadTask(id, "start", "", <<"", <<>>>>, NoSettings)}
    ELSE {}

ExitStatuses == {"exit 0", "exit 1", "wait failed"}

\* child.wait() returns (1131-1162), then the scope after the download
\* (1178-1363): the resolver, update_item_after_download, the auto-upload
SchedWait(wrote) ==
    /\ sched.pc = "wait"
    /\ \E exit \in ExitStatuses, w \in wrote :
         LET id == Get(sched.item).id
             url == Get(sched.item).url
             dir_sidecars == write_sidecars(sidecars, w.sidecars)
             dir_media == media \cup w.media
             matches == matching_sidecars(dir_sidecars, url)
             first_match == IF matches = {} THEN {None}
                            ELSE {Some(sc) : sc \in matches}
         IN  IF exit = "exit 0"
             THEN \E m \in first_match :
                    /\ queue' = update_item_after_download(
                           queue, id, "completed",
                           IF m = None THEN None ELSE Get(m).title,
                           IF m = None THEN None
                           ELSE actual_video_path(DownloadDir, Get(m), dir_media),
                           IF m = None THEN None ELSE Get(m).thumbnail,
                           "Download complete")
                    /\ sidecars' = IF m = None THEN dir_sidecars
                                   ELSE dir_sidecars \ {Get(m)}
                    /\ media' = dir_media
                    /\ Cardinality(uploads \cup auto_upload(settings, id)) <= MaxUploads
                    /\ uploads' = uploads \cup auto_upload(settings, id)
                    /\ last' = [op |-> "download", arg |-> id, res |-> exit,
                                url |-> url, matched |-> m,
                                dir_sidecars |-> dir_sidecars]
             ELSE /\ queue' = update_item_status(queue, id, "failed", "yt-dlp: " \o exit)
                  /\ sidecars' = dir_sidecars
                  /\ media' = dir_media
                  /\ uploads' = uploads
                  /\ last' = [op |-> "download", arg |-> id, res |-> exit,
                              url |-> url, matched |-> None,
                              dir_sidecars |-> dir_sidecars]
    /\ sched' = Sched("sleep", None, FALSE)
    /\ UNCHANGED <<nextId, settings, readers, polls>>

\* the else branch (1370-1401): one poll for every row of the status query
SchedCheckDb(db) ==
    /\ sched.pc = "check"
    /\ LET items_to_check == IF db = "ok"
                               THEN get_items_for_status_check(queue, settings)
                               ELSE {}
             spawned == {Poll(i.id, i.filecode, i.api_key, "file_info") :
                           i \in items_to_check}
         IN  /\ Cardinality(polls \cup spawned) <= MaxPolls
             /\ polls' = polls \cup spawned
             /\ sched' = Sched("sleep", None, items_to_check = {})
             /\ last' = Ret("check", {i.id : i \in items_to_check}, db)
    /\ UNCHANGED <<queue, nextId, settings, sidecars, media, readers, uploads>>

SchedCheck == \E db \in DbResults : SchedCheckDb(db)

SchedSleep ==
    /\ sched.pc = "sleep"
    /\ sched' = Sched("scope1", None, TRUE)
    /\ last' = Ret("sleep", sched.should_sleep_long, "ok")
    /\ UNCHANGED <<queue, nextId, settings, sidecars, media, readers, uploads, polls>>

(***************************************************************************)
(* The extractor as the model sees it: for a URL, what a run may leave in  *)
(* the download directory.                                                 *)
(***************************************************************************)
video_id(url) ==
    IF extract_facebook_video_id(url) # None THEN Get(extract_facebook_video_id(url))
    ELSE IF url = UrlPlain THEN "42" ELSE "43"

MediaName(stem, ext) == stem \o <<".", ext>>

\* the extractor reports the page it ended on: a reel is a watch page
webpage_url(url) == IF url = UrlReel THEN UrlWatch ELSE url

\* the sidecar of a run under the output template <dir>/%(id)s.%(ext)s
\* (1055-1059): <id>.info.json, naming <dir>/<id>.mp4
RunSidecar(url) ==
    Sidecar(<<video_id(url)>>, TRUE, Some(webpage_url(url)), Some(url),
            Some(<<DownloadDir, MediaName(<<video_id(url)>>, "mp4")>>),
            Some(<<"T">>), Some("mp4"), Some(<<"C">>))

\* the sidecar and the media file of a complete run
GoodRun(url) == Wrote({RunSidecar(url)}, {MediaName(<<video_id(url)>>, "mp4")})

\* a run that wrote nothing, or a complete one
ExtractorRuns(url) == {Wrote({}, {}), GoodRun(url)}

\* the same, and a run that wrote its sidecar but no media file
ResolverRuns(url) == ExtractorRuns(url) \cup {Wrote({RunSidecar(url)}, {})}

\* What earlier runs and other programs may have left in the directory: the
\* sidecar of a run of the same URL under the output template
\* "%(title)s by %(channel)s.%(ext)s" (1264), the sidecar of another URL, a
\* file that is not JSON; the media file of the former, and a media file
\* under the name this run will use.
OldSidecar(url) ==
    Sidecar(<<"T", " ", "by", " ", "C">>, TRUE, Some(webpage_url(url)), Some(url),
            Some(<<"", constructed_filename(<<"T">>, <<"C">>, "mp4")>>),
            Some(<<"T">>), Some("mp4"), Some(<<"C">>))

ForeignSidecar ==
    Sidecar(<<"43">>, TRUE, Some(UrlOther), Some(UrlOther),
            Some(<<"", MediaName(<<"43">>, "mp4")>>),
            Some(<<"T">>), Some("mp4"), Some(<<"C">>))

BrokenSidecar == Sidecar(<<"bad">>, FALSE, None, None, None, None, None, None)

StaleSidecars(url) == {OldSidecar(url), ForeignSidecar, BrokenSidecar}

StaleMedia(url) ==
    {constructed_filename(<<"T">>, <<"C">>, "mp4"), MediaName(<<video_id(url)>>, "mp4")}

(***************************************************************************)
(* Specifications.  Each one runs a part of the program from states the    *)
(* program can be in.                                                      *)
(*                                                                         *)
(* Spec: enqueue commands, the scheduler with its downloads, automatic and *)
(* manual uploads to Files.vc, from the empty queue, when nothing goes     *)
(* wrong in the database and no reader lags behind.                        *)
(***************************************************************************)
Urls == {UrlPlain, UrlOther}

QueueSettings ==
    {AppSettings(None, Some("key"), None, None, auto, Some("files_vc")) :
        auto \in {None, Some("true")}}

Init ==
    /\ queue = <<>>
    /\ nextId = 0
    /\ settings \in QueueSettings
    /\ sidecars = {}
    /\ media = {}
    /\ sched = Sched("scope1", None, TRUE)
    /\ readers = {}
    /\ uploads = {}
    /\ polls = {}
    /\ last = Ret("init", None, "ok")

\* added_at is the time of the call: item.added_at.unwrap_or(now)
Enqueue == \E url \in Urls : AddQueueItem(url, nextId + 1)

ManualUpload == \E id \in Ids : TriggerUpload(id)

\* the loop of process_queue_background
SchedulerLoop(db_results) ==
    \/ SchedScope1(db_results)
    \/ SchedScope2
    \/ SchedSpawn
    \/ (sched.pc = "wait" /\ SchedWait(ExtractorRuns(Get(sched.item).url)))
    \/ SchedCheck
    \/ SchedSleep

\* The database answers the queries of scope 1, and a stdout reader is
\* prompt: it handles a line while the extractor runs and has met the end of
\* the pipe when the sleep after the download is over.
PromptScheduler ==
    \/ SchedScope1({"ok"})
    \/ SchedScope2
    \/ SchedSpawn
    \/ \E id \in Ids : (sched.pc = "wait" /\ ReaderLine(id))
    \/ (sched.pc = "wait" /\ SchedWait(ExtractorRuns(Get(sched.item).url)))
    \/ \E id \in Ids : ReaderEof(id)
    \/ SchedCheck
    \/ (readers = {} /\ SchedSleep)

FilesVcUploads ==
    \/ \E t \in uploads : UploadStart(t)
    \/ \E t \in uploads : UploadPrecheck(t)
    \/ \E t \in uploads : UploadFvcUpload(t)

Next == Enqueue \/ ManualUpload \/ PromptScheduler \/ FilesVcUploads

Spec == Init /\ [][Next]_vars

InFlight == {i \in DOMAIN queue : queue[i].status \in {"downloading", "uploading"}}

\* C1 (single-flight): in every state reachable by enqueue commands,
\* scheduler iterations, download completions, automatic uploads and manual
\* trigger_upload commands, at most one item is 'downloading' or 'uploading'.
SingleFlight == Cardinality(InFlight) <= 1

(***************************************************************************)
(* SpecFifo: enqueue commands with caller-supplied added_at values, cancel *)
(* commands and the scheduler, whose queries may fail; nothing is          *)
(* uploaded.                                                               *)
(***************************************************************************)
InitFifo == Init /\ settings.auto_upload = None

EnqueueAt == \E url \in Urls, t \in Times : AddQueueItem(url, t)

Cancel == \E id \in Ids : CancelItem(id)

\* the loop and the detached readers, which write whenever they get to run
Scheduler(db_results) ==
    \/ SchedulerLoop(db_results)
    \/ \E id \in Ids : ReaderLine(id)
    \/ \E id \in Ids : ReaderEof(id)

NextFifo == EnqueueAt \/ Cancel \/ Scheduler(DbResults)

SpecFifo == InitFifo /\ [][NextFifo]_vars

Queued(q) == {i \in DOMAIN q : q[i].status = "queued"}

\* C2 (FIFO dispatch): when the scheduler picks, it picks a queued item and
\* no queued item has a smaller added_at; and an item that goes from 'queued'
\* to 'downloading' is the item the scheduler picked.  So of two items that
\* are both queued at a pick the younger one is never dispatched first.
FifoDispatch ==
    [][/\ (last'.op = "scope1" /\ last'.res = "picked") =>
            /\ Get(last'.arg) \in Queued(queue)
            /\ \A j \in Queued(queue) :
                  queue[Get(last'.arg)].added_at <= queue[j].added_at
            /\ sched'.item = Some([id |-> Get(last'.arg),
                                   url |-> queue[Get(last'.arg)].url])
       /\ \A i \in Queued(queue) :
            (i \in DOMAIN queue' /\ queue'[i].status = "downloading") =>
                sched.pc = "scope2" /\ Get(sched.item).id = i]_vars

\* a pick that had to choose: the item picked is not the one with the least
\* id, and a younger item is waiting
FifoDispatchWitness ==
    /\ last.op = "scope1" /\ last.res = "picked"
    /\ \E j \in Queued(queue) :
          /\ j < Get(last.arg)
          /\ queue[j].added_at > queue[Get(last.arg)].added_at

(***************************************************************************)
(* SpecCommands: the commands that change the queue table, from the tables *)
(* the program can hold: the handlers, or the commands update_item_status  *)
(* and update_queue_item (main.rs 202-226), leave a row in any status with *)
(* any provider references.                                                *)
(***************************************************************************)
AllStatuses == Statuses \cup {files_vc_success_status}

StoredRows(url) ==
    {[QueueItem(url, status, 1) EXCEPT !.filemoon_url = fm, !.files_vc_url = fvc] :
        status \in AllStatuses,
        fm \in {None} \cup {Some(c) : c \in FileCodes},
        fvc \in {None} \cup {Some(u) : u \in FileUrls}}

CommandTables ==
    {<<>>} \cup {<<r>> : r \in StoredRows(UrlPlain)}
           \cup {<<r1, r2>> : r1 \in StoredRows(UrlPlain), r2 \in StoredRows(UrlOther)}

ClearLists == {{}, {"completed", "failed", "cancelled"}}

InitCommands ==
    /\ queue \in CommandTables
    /\ nextId = Len(queue)
    /\ settings = NoSettings
    /\ sidecars = {}
    /\ media = {}
    /\ sched = Sched("scope1", None, TRUE)
    /\ readers = {}
    /\ uploads = {}
    /\ polls = {}
    /\ last = Ret("init", None, "ok")

Retry == \E id \in Ids : RetryItem(id)

Clear == \E status_types \in ClearLists : ClearCompletedItems(status_types)

NextCommands == EnqueueAt \/ Retry \/ Cancel \/ Clear

SpecCommands == InitCommands /\ [][NextCommands]_vars

NonTerminal ==
    {"queued", "downloading", "completed", "uploading", "transferring", "encoding"}

\* C3 (duplicate-URL rejection): add_queue_item with the URL of an existing
\* item inserts nothing and changes no item; it fails with 'already exists in
\* the active queue' if that item is not terminal and with 'has already been
\* archived' if that item is 'encoded'.
DuplicateRejection ==
    [][last'.op = "add_queue_item" =>
         \A i \in DOMAIN queue :
            queue[i].url = last'.arg =>
                /\ queue' = queue
                /\ queue[i].status \in NonTerminal =>
                       last'.res = "already exists in the active queue"
                /\ queue[i].status = "encoded" =>
                       last'.res = "has already been archived"]_vars

\* an add that was rejected because the URL is archived
DuplicateRejectionWitness ==
    /\ last.op = "add_queue_item" /\ last.res = "has already been archived"
    /\ \E i \in DOMAIN queue : queue[i].url = last.arg /\ queue[i].status = "encoded"

\* C4 (retry eligibility): retry_item sets an item to 'queued' and succeeds
\* if the item is 'failed' and has neither a filemoon_url nor a files_vc_url;
\* for every other item, and for an unknown id, it returns an error and
\* changes nothing.
RetryEligibility ==
    [][last'.op = "retry_item" =>
         LET id == last'.arg IN
         IF /\ id \in DOMAIN queue
            /\ queue[id].status = "failed"
            /\ queue[id].filemoon_url = None /\ queue[id].files_vc_url = None
         THEN /\ last'.res = "ok"
              /\ DOMAIN queue' = DOMAIN queue
              /\ queue'[id].status = "queued"
              /\ \A j \in DOMAIN queue \ {id} : queue'[j] = queue[j]
         ELSE /\ last'.res # "ok"
              /\ queue' = queue]_vars

\* a retry that put a failed item back in the queue
RetryEligibilityWitness ==
    /\ last.op = "retry_item" /\ last.res = "ok"
    /\ queue[last.arg].status = "queued"

(***************************************************************************)
(* SpecUpload: trigger_upload calls for one item, under every setting of   *)
(* the upload target and the provider keys, with the media file present or *)
(* not.  The item starts as the scheduler, a retry or an earlier upload    *)
(* can have left it.                                                       *)
(***************************************************************************)
MediaFile == MediaName(<<video_id(UrlPlain)>>, "mp4")

UploadRows ==
    {[QueueItem(UrlPlain, status, 1) EXCEPT
         !.local_path = local_path,
         !.filemoon_url = IF status = "encoded" THEN Some("abc123") ELSE None] :
        status \in {"queued", "downloading", "completed", "encoded"},
        local_path \in {None, Some(<<DownloadDir, MediaFile>>)}}

UploadSettings ==
    {AppSettings(fm, fvc, None, del, None, target) :
        fm \in {None, Some(""), Some("key")},
        fvc \in {None, Some("key")},
        del \in {None, Some("true")},
        target \in {None, Some("filemoon"), Some("files_vc"), Some("both"),
                    Some("other")}}

InitUpload ==
    /\ queue \in {<<r>> : r \in UploadRows}
    /\ nextId = 1
    /\ settings \in UploadSettings
    /\ sidecars = {}
    /\ media \in {{}, {MediaFile}}
    /\ sched = Sched("scope1", None, TRUE)
    /\ readers = {}
    /\ uploads = {}
    /\ polls = {}
    /\ last = Ret("init", None, "ok")

NextUpload ==
    \/ ManualUpload
    \/ \E t \in uploads : UploadPrecheck(t)
    \/ \E t \in uploads : UploadFmServer(t)
    \/ \E t \in uploads : UploadFmUpload(t)
    \/ \E t \in uploads : UploadFvcUpload(t)

SpecUpload == InitUpload /\ [][NextUpload]_vars

\* the calls that wait for the answer to a request they sent in this step
Sending(before, after) ==
    {t \in after \ before : t.pc \in {"fm_server", "fm_upload", "fvc_upload"}}

\* C5 (upload preconditions): a trigger_upload call sends a request to a
\* provider only if the item was 'completed' or 'encoded' when the call
\* looked at it, its local_path is set and names a file that exists, and the
\* key of that provider is configured; a call for an item that is 'queued'
\* or 'downloading' returns an error, sends nothing and changes nothing.
UploadPreconditions ==
    [][/\ \A t \in Sending(uploads, uploads') :
            /\ t.status \in {"completed", "encoded"}
            /\ t.local_path[1] = DownloadDir /\ t.local_path[2] \in media
            /\ LET key == IF t.pc = "fvc_upload"
                          THEN t.settings_clone.files_vc_api_key
                          ELSE t.settings_clone.filemoon_api_key
               IN  key # None /\ Get(key) # ""
       /\ (/\ last'.op = "trigger_upload" /\ last'.part = "scope1"
           /\ last'.arg \in DOMAIN queue
           /\ queue[last'.arg].status \in {"queued", "downloading"}) =>
              /\ last'.res \notin {"ok", "pending"}
              /\ last'.calls = <<>>
              /\ uploads' \subseteq uploads
              /\ queue' = queue]_vars

\* a call has sent a request and waits for the answer
UploadPreconditionsWitness ==
    /\ last.op = "trigger_upload" /\ last.res = "pending"
    /\ \E t \in uploads : t.id = last.arg /\ t.calls # <<>>

\* C10 (successful upload outcome): after a trigger_upload call that
\* returned success, whichever provider took the file, the item is
\* 'transferring' and holds the reference the provider returned.
UploadSuccessTransferring ==
    (last.op = "trigger_upload" /\ last.res = "ok" /\ last.arg \in DOMAIN queue) =>
        /\ queue[last.arg].status = "transferring"
        /\ \/ queue[last.arg].filemoon_url \in {Some(c) : c \in FileCodes}
           \/ queue[last.arg].files_vc_url \in {Some(u) : u \in FileUrls}

(***************************************************************************)
(* SpecPoll: the scheduler's poll sweep and the polls it spawns, for one   *)
(* item that Filemoon has accepted.                                        *)
(***************************************************************************)
PollRows ==
    {[QueueItem(UrlPlain, status, 1) EXCEPT
         !.local_path = Some(<<DownloadDir, MediaFile>>),
         !.filemoon_url = Some(c)] :
        status \in {"transferring", "encoding"}, c \in FileCodes}

InitPoll ==
    /\ queue \in {<<r>> : r \in PollRows}
    /\ nextId = 1
    /\ settings = AppSettings(Some("key"), None, None, None, None, Some("filemoon"))
    /\ sidecars = {}
    /\ media = {MediaFile}
    /\ sched = Sched("scope1", None, TRUE)
    /\ readers = {}
    /\ uploads = {}
    /\ polls = {}
    /\ last = Ret("init", None, "ok")

NextPoll ==
    \/ SchedScope1(DbResults)
    \/ SchedCheck
    \/ SchedSleep
    \/ \E p \in polls : PollFileInfo(p)
    \/ \E p \in polls : PollStatus(p)

SpecPoll == InitPoll /\ [][NextPoll]_vars

\* C6 (readiness two-tier fallback): a poll cycle in which file/info said
\* "not ready" or failed has asked encoding/status exactly once when it ends;
\* a cycle that waits for encoding/status has asked it once.
ReadinessFallback ==
    /\ (last.op = "check_filemoon_readiness" /\ last.res \in {"not ready", "err"}) =>
           last.status_calls = 1 /\ last.answer.do # "not asked"
    /\ \A p \in polls : p.pc = "status" =>
           p.status_calls = 1 /\ p.info \in {"not ready", "err"}

\* a cycle has ended after file/info failed
ReadinessFallbackWitness ==
    /\ last.op = "check_filemoon_readiness"
    /\ last.res = "err" /\ last.status_calls = 1

\* a file/info response that reports the file with status 200 and canplay 1
ReadyResponse(resp, filecode) ==
    /\ resp.kind = "json" /\ resp.http_ok /\ resp.status = 200
    /\ resp.result # None
    /\ \E r \in Get(resp.result) :
          r.file_code = filecode /\ r.status = 200 /\ r.canplay = Some(1)

\* the step read the file/info response of a poll cycle
ReadFileInfo ==
    /\ last.op \in {"file_info", "check_filemoon_readiness"}
    /\ last.answer.do = "not asked"

\* C7 (authoritative ready signal): when file/info reports canplay 1 with
\* status 200 for the item's file code, the cycle ends there, encoding/status
\* has not been asked, and the item is 'encoded' with encoding_progress 100.
AuthoritativeReady ==
    (ReadFileInfo /\ ReadyResponse(last.resp, last.filecode)) =>
        /\ last.op = "check_filemoon_readiness"
        /\ last.status_calls = 0
        /\ \A p \in polls : p.pc = "status" => p.info # "ready"
        /\ queue[last.arg].status = "encoded"
        /\ queue[last.arg].encoding_progress = Some(100)

\* a cycle has ended on the ready signal
AuthoritativeReadyWitness ==
    /\ ReadFileInfo /\ ReadyResponse(last.resp, last.filecode)
    /\ queue[last.arg].status = "encoded"

\* the integers that the progress strings of the model denote
DecimalValue == ("40" :> 40) @@ ("100" :> 100) @@ ("150" :> 150)

\* the step read an encoding/status response that says ENCODING with an
\* integer progress, in a cycle whose file/info check had failed
EncodingAfterFailure ==
    /\ last.op = "check_filemoon_readiness" /\ last.answer.do # "not asked"
    /\ last.res = "err"
    /\ last.resp.kind = "json" /\ last.resp.http_ok /\ last.resp.status = 200
    /\ last.resp.result # None
    /\ Get(last.resp.result).status = "ENCODING"
    /\ Get(last.resp.result).progress # None
    /\ Get(Get(last.resp.result).progress) \in DOMAIN DecimalValue

\* C8 (fallback progress propagation): when file/info fails and
\* encoding/status answers ENCODING with progress p, the item is 'encoding'
\* with encoding_progress p at the end of the cycle.
FallbackProgress ==
    EncodingAfterFailure =>
        /\ queue[last.arg].status = "encoding"
        /\ queue[last.arg].encoding_progress =
               Some(DecimalValue[Get(Get(last.resp.result).progress)])

\* such a cycle has ended for an item that had not been encoding before
FallbackProgressWitness ==
    /\ EncodingAfterFailure
    /\ Get(Get(last.resp.result).progress) = "40"
    /\ queue[last.arg].encoding_progress = Some(40)

(***************************************************************************)
(* SpecResolve: the scheduler downloads one item into a directory that     *)
(* holds what earlier runs and other programs left there.                  *)
(***************************************************************************)
ResolveUrls == {UrlPlain, UrlReel}

InitResolve ==
    \E url \in ResolveUrls :
        /\ queue = <<QueueItem(url, "queued", 1)>>
        /\ nextId = 1
        /\ settings = NoSettings
        /\ sidecars \in SUBSET StaleSidecars(url)
        /\ media \in SUBSET StaleMedia(url)
        /\ sched = Sched("scope1", None, TRUE)
        /\ readers = {}
        /\ uploads = {}
        /\ polls = {}
        /\ last = Ret("init", None, "ok")

NextResolve ==
    \/ SchedScope1(DbResults)
    \/ SchedScope2
    \/ SchedSpawn
    \/ \E id \in Ids : ReaderLine(id)
    \/ \E id \in Ids : ReaderEof(id)
    \/ (sched.pc = "wait" /\ SchedWait(ResolverRuns(Get(sched.item).url)))
    \/ SchedCheck
    \/ SchedSleep

SpecResolve == InitResolve /\ [][NextResolve]_vars

\* the extractor has exited 0 and the resolver has run
Downloaded == last.op = "download" /\ last.res = "exit 0"

\* the sidecars the run left in the directory whose URL matches the item's
\* and whose '_filename' names a file that exists
GoodSidecars ==
    {sc \in last.dir_sidecars :
        /\ sc.ok /\ urls_match(last.url, sc)
        /\ sc.filename # None
        /\ PathExists(PathJoin(DownloadDir, Get(sc.filename)), media)}

\* C9 (successful download outcome): when the extractor exits 0 and the
\* directory holds a sidecar whose URL matches the item's and whose
\* '_filename' names a file that exists, the item is 'completed' and its
\* local_path is the download directory joined with the '_filename' of such
\* a sidecar.  The scan of main.rs 1194-1312 stops at the first matching
\* sidecar in directory order, whether or not it led to a file.
DownloadOutcome ==
    (Downloaded /\ GoodSidecars # {}) =>
        /\ queue[last.arg].status = "completed"
        /\ \E sc \in GoodSidecars :
               queue[last.arg].local_path =
                   Some(PathJoin(DownloadDir, Get(sc.filename)))

\* the local_path values a resolver pass (main.rs 1194-1312) can come to for
\* the item's URL in a directory that holds these sidecars and media files
resolver_paths(dir_sidecars, dir_media, item_original_url) ==
    IF matching_sidecars(dir_sidecars, item_original_url) = {} THEN {None}
    ELSE {actual_video_path(DownloadDir, sc, dir_media) :
            sc \in matching_sidecars(dir_sidecars, item_original_url)}

\* C11 (artifact matching idempotence): after a resolver pass for an item, a
\* second pass for the same item against the directory as the first pass
\* left it comes to the local_path the first pass stored (the same path, or
\* unset both times).
ResolverIdempotent ==
    Downloaded =>
        \A path \in resolver_paths(sidecars, media, last.url) :
            path = queue[last.arg].local_path

\* C12 (unconditional cancel): cancel_item on an existing item succeeds and
\* sets its status to 'cancelled' whatever the status was, and changes no
\* other item; on an unknown id it returns an error and changes nothing.
UnconditionalCancel ==
    [][last'.op = "cancel_item" =>
         LET id == last'.arg IN
         IF id \in DOMAIN queue
         THEN /\ last'.res = "ok"
              /\ DOMAIN queue' = DOMAIN queue
              /\ queue'[id].status = "cancelled"
              /\ \A j \in DOMAIN queue \ {id} : queue'[j] = queue[j]
         ELSE /\ last'.res # "ok"
              /\ queue' = queue]_vars

\* a cancel of an item that a provider had already taken
UnconditionalCancelWitness ==
    /\ last.op = "cancel_item" /\ last.res = "ok"
    /\ queue[last.arg].status = "cancelled"
    /\ queue[last.arg].filemoon_url # None

\* the steps that are user commands and nothing else
UserCommands ==
    {"add_queue_item", "retry_item", "cancel_item", "clear_completed_items"}

\* C13 (cancelled is terminal): once an item is 'cancelled', no step of the
\* scheduler, the download executor, its stdout reader, the upload handler
\* or the readiness poller changes the item's status.
CancelledIsTerminal ==
    [][\A i \in DOMAIN queue :
         (queue[i].status = "cancelled" /\ last'.op \notin UserCommands) =>
             (i \in DOMAIN queue' /\ queue'[i].status = "cancelled")]_vars

(***************************************************************************)
(* SpecWhole: the whole pipeline for one item, from 'queued' through the   *)
(* download, the automatic upload and the readiness polls, under every     *)
(* upload target, with the commands cancel and purge.  A second item, long *)
(* cancelled, sits in the table.                                           *)
(***************************************************************************)
WholeSettings ==
    {AppSettings(Some("key"), Some("key"), None, None, Some("true"), target) :
        target \in {Some("filemoon"), Some("files_vc"), Some("both")}}

InitWhole ==
    /\ queue = <<QueueItem(UrlPlain, "queued", 1), QueueItem(UrlOther, "cancelled", 2)>>
    /\ nextId = 2
    /\ settings \in WholeSettings
    /\ sidecars = {}
    /\ media = {}
    /\ sched = Sched("scope1", None, TRUE)
    /\ readers = {}
    /\ uploads = {}
    /\ polls = {}
    /\ last = Ret("init", None, "ok")

Uploads ==
    \/ \E t \in uploads : UploadStart(t)
    \/ \E t \in uploads : UploadPrecheck(t)
    \/ \E t \in uploads : UploadFmServer(t)
    \/ \E t \in uploads : UploadFmUpload(t)
    \/ \E t \in uploads : UploadFvcUpload(t)

Polls ==
    \/ \E p \in polls : PollFileInfo(p)
    \/ \E p \in polls : PollStatus(p)

NextWhole ==
    \/ Cancel
    \/ Clear
    \/ Scheduler(DbResults)
    \/ Uploads
    \/ Polls

SpecWhole == InitWhole /\ [][NextWhole]_vars

\* C14 (no background deletion): a step that is not clear_completed_items
\* removes no item; clear_completed_items removes exactly the items whose
\* status is in the given list, leaves the others as they were, and removes
\* nothing when the list is empty.
NoBackgroundDeletion ==
    [][/\ last'.op # "clear_completed_items" => DOMAIN queue \subseteq DOMAIN queue'
       /\ last'.op = "clear_completed_items" =>
            /\ DOMAIN queue' = {i \in DOMAIN queue : queue[i].status \notin last'.arg}
            /\ \A i \in DOMAIN queue' : queue'[i] = queue[i]
            /\ last'.arg = {} => queue' = queue]_vars

\* a purge that removed one item and kept another
NoBackgroundDeletionWitness ==
    /\ last.op = "clear_completed_items" /\ last.arg # {}
    /\ DOMAIN queue # {} /\ Cardinality(DOMAIN queue) < nextId

\* the call that the step just taken was a step of: it stood at `pc`
Stepped(pc) == {t \in uploads : t \notin uploads' /\ t.pc = pc}

\* the item is not in a state to be uploaded: scope 1 of trigger_upload
\* (main.rs 503-510) turns the call down
NotUploadable(item) ==
    item.status \notin {"completed", "encoded"} \/ item.local_path = None

\* the existence check or a key check (main.rs 524-550, 696-705) turns the
\* call t down
PrecheckFails(t) ==
    \/ ~PathExists(t.local_path, media)
    \/ /\ upload_target(t.settings_clone) \in {"filemoon", "both"}
       /\ ~KeyConfigured(t.settings_clone.filemoon_api_key)
    \/ /\ upload_target(t.settings_clone) = "files_vc"
       /\ ~KeyConfigured(t.settings_clone.files_vc_api_key)

\* C15 as stated (precondition violations mark the item failed): a
\* trigger_upload call for an existing item that violates a precondition
\* (status, local_path unset, file missing, key not configured) returns an
\* error and leaves the item 'failed'.
PreconditionViolationFails ==
    [][/\ (/\ last'.op = "trigger_upload" /\ last'.part = "scope1"
           /\ last'.arg \in DOMAIN queue /\ NotUploadable(queue[last'.arg])) =>
              /\ last'.res \notin {"ok", "pending"}
              /\ queue'[last'.arg].status = "failed"
       /\ \A t \in Stepped("precheck") : PrecheckFails(t) =>
              /\ last'.res \notin {"ok", "pending"}
              /\ queue'[t.id].status = "failed"]_vars

\* C15 as amended: a call that finds the file missing or the provider's key
\* not configured returns an error and leaves the item 'failed'; a call for
\* an item whose status is not 'completed' or 'encoded', or whose local_path
\* is unset, returns an error and leaves the item as it was.
PreconditionViolationOutcome ==
    [][/\ (/\ last'.op = "trigger_upload" /\ last'.part = "scope1"
           /\ last'.arg \in DOMAIN queue /\ NotUploadable(queue[last'.arg])) =>
              /\ last'.res \notin {"ok", "pending"}
              /\ queue' = queue
       /\ \A t \in Stepped("precheck") : PrecheckFails(t) =>
              /\ last'.res \notin {"ok", "pending"}
              /\ last'.calls = <<>>
              /\ queue'[t.id].status = "failed"]_vars

\* a call was turned down because the file was gone, and the item is failed
PreconditionViolationWitness ==
    /\ last.op = "trigger_upload" /\ last.part = "precheck"
    /\ last.res = "Local file does not exist"
    /\ queue[last.arg].status = "failed"

\* C16 (upload failures always land in 'failed'): a trigger_upload call that
\* has set the item to 'uploading' and then returns an error leaves the item
\* 'failed', and no item is 'uploading' unless a call for it is in flight.
UploadFailureLandsFailed ==
    /\ (/\ last.op = "trigger_upload" /\ last.part # "scope1"
        /\ last.res \notin {"ok", "pending"}
        /\ last.arg \in DOMAIN queue) => queue[last.arg].status = "failed"
    /\ \A i \in DOMAIN queue :
          queue[i].status = "uploading" => \E t \in uploads : t.id = i

\* the step of the call t was a failure of Filemoon: its key is missing, the
\* upload-server request or the read of the file failed, or the POST failed
FilemoonFailed(t) ==
    \/ /\ t.pc = "precheck" /\ PathExists(t.local_path, media)
       /\ ~KeyConfigured(t.settings_clone.filemoon_api_key)
    \/ /\ t.pc = "fm_server"
       /\ ~\E n \in uploads' \ uploads : n.id = t.id /\ n.pc = "fm_upload"
    \/ /\ t.pc = "fm_upload" /\ last'.res # "ok"

\* the step went on to Files.vc: the POST is out, or the attempt ended at the
\* Files.vc key or at File::open
FilesVcAttempted(t) ==
    \/ \E n \in uploads' \ uploads : n.id = t.id /\ n.pc = "fvc_upload"
    \/ last'.res \in {"Files.vc API key not configured", "Failed to open file"}

\* C17 (fallback provider in 'both' mode): with upload_target 'both', when
\* Filemoon fails at any step, Files.vc is attempted; and the call reports
\* success if a provider took the file.
FallbackInBothMode ==
    [][\A t \in uploads \ uploads' :
         upload_target(t.settings_clone) = "both" =>
            /\ FilemoonFailed(t) => FilesVcAttempted(t)
            /\ (/\ last'.res \notin {"pending"}
                /\ \/ queue'[t.id].filemoon_url # queue[t.id].filemoon_url
                   \/ queue'[t.id].files_vc_url # queue[t.id].files_vc_url) =>
                   last'.res = "ok"]_vars

\* the encoding/status check of the step just taken had a usable result
UsableStatus == last.op = "check_filemoon_readiness" /\ last.answer.do = "update"

\* C18 (encoding-status mapping): when the encoding-status check returns a
\* usable result, the item's status is 'encoding' for the provider states
\* ENCODING and PENDING, 'encoded' for FINISHED and ACTIVE, 'failed' for
\* ERROR and 'transferring' for every other state.
EncodingStatusMapping ==
    UsableStatus =>
        queue[last.arg].status =
            CASE last.answer.api_status \in {"ENCODING", "PENDING"} -> "encoding"
              [] last.answer.api_status \in {"FINISHED", "ACTIVE"} -> "encoded"
              [] last.answer.api_status = "ERROR" -> "failed"
              [] OTHER -> "transferring"

\* C19 (no automatic retry): the scheduler never picks a failed item, and a
\* failed item leaves 'failed' only through a user command: no step of a
\* background component changes the status of a failed item.
NoAutomaticRetry ==
    [][/\ (last'.op = "scope1" /\ last'.res = "picked") =>
            queue[Get(last'.arg)].status # "failed"
       /\ \A i \in DOMAIN queue :
            (queue[i].status = "failed" /\ last'.op \notin UserCommands) =>
                (i \in DOMAIN queue' /\ queue'[i].status = "failed")]_vars

\* C20 (status domain): every status that a step of the scheduler, the
\* download executor, the upload handler or the readiness poller writes is
\* one of queued, downloading, completed, uploading, transferring, encoding,
\* encoded, failed, cancelled.
StatusDomain ==
    [][\A i \in DOMAIN queue' :
         (/\ last'.op \notin UserCommands
          /\ i \in DOMAIN queue => queue'[i].status # queue[i].status) =>
             queue'[i].status \in Statuses]_vars

(***************************************************************************)
(* The settings commands on their own: SpecSettings.                       *)
(***************************************************************************)
\* Database::get_settings: the record built from the rows of the table; a
\* statement that cannot be prepared or run gives the defaults
get_settings(table, db) == IF db = "ok" THEN table ELSE NoSettings

\* the records the settings page can send
SettingsInputs ==
    {AppSettings(fm_key, None, directory, None, auto, target) :
        fm_key \in {None, Some("key"), Some("key2")},
        directory \in {None, Some(DownloadDir)},
        auto \in {None, Some("true")},
        target \in {None, Some("filemoon"), Some("files_vc")}}

\* command save_settings: a failed transaction is rolled back as a whole
SaveSettings(s, db) ==
    /\ settings' = IF db = "ok" THEN save_settings(settings, s) ELSE settings
    /\ last' = Ret("save_settings", s, db)
    /\ UNCHANGED <<queue, nextId, sidecars, media, sched, readers, uploads, polls>>

\* command get_settings
GetSettings(db) ==
    /\ last' = Ret("get_settings", db, get_settings(settings, db))
    /\ UNCHANGED <<queue, nextId, settings, sidecars, media, sched, readers, uploads, polls>>

InitSettings ==
    /\ queue = <<>>
    /\ nextId = 0
    /\ settings = NoSettings
    /\ sidecars = {}
    /\ media = {}
    /\ sched = Sched("scope1", None, TRUE)
    /\ readers = {}
    /\ uploads = {}
    /\ polls = {}
    /\ last = Ret("init", None, "ok")

Save == \E s \in SettingsInputs, db \in DbResults : SaveSettings(s, db)

Load == \E db \in DbResults : GetSettings(db)

NextSettings == Save \/ Load

SpecSettings == InitSettings /\ [][NextSettings]_vars

\* C21 (settings saved as a whole): a save either applies all of its record
\* or nothing, and a get_settings that follows a successful save_settings(s)
\* returns exactly s, field by field, the fields that s leaves unset
\* included.
SettingsSavedWhole ==
    [][/\ (last'.op = "save_settings" /\ last'.res = "err") => settings' = settings
       /\ (/\ last.op = "save_settings" /\ last.res = "ok"
           /\ last'.op = "get_settings" /\ last'.arg = "ok") =>
              last'.res = last.arg]_vars

(***************************************************************************)
(* SpecSched: the scheduler and the polls it spawns over a queue of two    *)
(* rows in any of the states a run leaves behind; the stdout readers do    *)
(* not get to run.  A row 'uploading' with no upload in flight is what an  *)
(* upload leaves whose file could not be read, or a run of the program     *)
(* that was closed during an upload.                                       *)
(***************************************************************************)
Refs == {None} \cup {Some(c) : c \in FileCodes}

\* the first row waits, is in flight or has failed after Filemoon took it
FirstRows ==
    {QueueItem(UrlPlain, "queued", 1)}
    \cup {[QueueItem(UrlPlain, status, 1) EXCEPT !.filemoon_url = Some(c)] :
             status \in {"uploading", "failed"}, c \in FileCodes}

\* the second row is with the provider, with or without a reference
SecondRows ==
    {[QueueItem(UrlOther, status, 2) EXCEPT !.filemoon_url = ref] :
        status \in {"transferring", "encoding"}, ref \in Refs}

SchedSettings ==
    {AppSettings(fm_key, None, None, None, None, Some("filemoon")) :
        fm_key \in {None, Some("key")}}

InitSched ==
    /\ queue \in {<<r1, r2>> : r1 \in FirstRows, r2 \in SecondRows}
    /\ nextId = 2
    /\ settings \in SchedSettings
    /\ sidecars = {}
    /\ media = {}
    /\ sched = Sched("scope1", None, TRUE)
    /\ readers = {}
    /\ uploads = {}
    /\ polls = {}
    /\ last = Ret("init", None, "ok")

NextSched == SchedulerLoop(DbResults) \/ Polls

SpecSched == InitSched /\ [][NextSched]_vars

\* C22 (busy iteration does nothing): when scope 1 of an iteration found an
\* item 'downloading' or 'uploading', the iteration dispatches no download,
\* and the step of the loop that follows dispatches no readiness poll.
BusyIterationIdle ==
    [][/\ (last'.op = "scope1" /\ last'.res = "busy") => sched'.item = None
       /\ (last.op = "scope1" /\ last.res = "busy" /\ sched.pc = "check"
           /\ sched'.pc # "check") =>
              (last'.op = "check" /\ last'.arg = {} /\ polls' = polls)]_vars

\* C23 (repository errors mean no work): a scope 1 in which the query for
\* an item 'downloading' or 'uploading' fails, or the query for the next
\* queued item fails, dispatches no download; the loop goes on to its next
\* iteration.
RepositoryErrorsMeanNoWork ==
    [][\A db1 \in DbResults, db2 \in DbResults :
         (SchedScope1Db(db1, db2) /\ "err" \in {db1, db2}) =>
             (last'.res # "picked" /\ sched'.pc = "check")]_vars

\* the rows the poll dispatch rule names: with the provider, with a
\* provider reference, while a filemoon_api_key row is stored
Pollable(q, s) ==
    {i \in DOMAIN q : /\ q[i].status \in {"transferring", "encoding"}
                      /\ q[i].filemoon_url # None
                      /\ s.filemoon_api_key # None}

\* the polls a step has spawned from the scheduler loop
Dispatched == {p \in polls' : p \notin polls /\ p.pc = "file_info"}

\* C24 (poll dispatch rule): the scheduler dispatches readiness polls only
\* in an iteration that dequeued no queued item; when its query succeeds it
\* dispatches one poll for each item that is 'transferring' or 'encoding',
\* has a provider reference and has a stored API key, with that reference
\* and key, and none for any other item.
PollDispatchRule ==
    [][/\ Dispatched # {} =>
            (sched.pc = "check" /\ sched.item = None /\ last'.op = "check")
       /\ (last'.op = "check" /\ last'.res = "ok") =>
            /\ last'.arg = Pollable(queue, settings)
            /\ \A i \in Pollable(queue, settings) :
                 Poll(i, Get(queue[i].filemoon_url), Get(settings.filemoon_api_key),
                      "file_info") \in polls'
            /\ \A p \in Dispatched : p.id \in Pollable(queue, settings)
       /\ (last'.op = "check" /\ last'.res = "err") => Dispatched = {}]_vars

\* a sweep over two rows has dispatched a poll for one and none for the
\* other, which is in another status or has no provider reference
PollDispatchRuleWitness ==
    /\ last.op = "check" /\ last.res = "ok"
    /\ Cardinality(last.arg) = 1
    /\ Cardinality(DOMAIN queue) = 2

\* the download attempt of item i is running: the loop has marked the item
\* and has not yet passed the spawn and the wait
Attempting(i) ==
    /\ sched.item # None /\ Get(sched.item).id = i
    /\ sched.pc \in {"spawn", "wait"}

\* C25 (download outcome classification): when the extractor has exited
\* with code 0 the item is 'completed'; after a non-zero exit, a failed wait
\* or a failed spawn it is 'failed'; and an item is 'downloading' only while
\* its download attempt is running.
DownloadOutcomeClassified ==
    [][/\ (last'.op = "download" /\ last'.arg \in DOMAIN queue') =>
            queue'[last'.arg].status =
                (IF last'.res = "exit 0" THEN "completed" ELSE "failed")
       /\ (last'.op = "spawn" /\ last'.res = "err" /\ last'.arg \in DOMAIN queue') =>
            queue'[last'.arg].status = "failed"
       /\ \A i \in DOMAIN queue' :
            queue'[i].status = "downloading" => Attempting(i)']_vars

\* the background tasks that hold item i: a readiness poll, an upload, or
\* the download the loop is running
Owners(i) ==
    {p \in polls : p.id = i} \cup {t \in uploads : t.id = i}
        \cup (IF Attempting(i) THEN {sched} ELSE {})

\* C26 (one owner per item): the scheduler dispatches a readiness poll for
\* an item only when no earlier poll, no upload and no download of that
\* item is still running.
OneOwnerPerItem ==
    [][last'.op = "check" => \A i \in last'.arg : Owners(i) = {}]_vars

(***************************************************************************)
(* SpecDegraded: SpecResolve with the command trigger_upload.              *)
(***************************************************************************)
NextDegraded ==
    \/ NextResolve
    \/ ManualUpload
    \/ \E t \in uploads : UploadPrecheck(t)

SpecDegraded == InitResolve /\ [][NextDegraded]_vars

\* the three places the resolver looks for the media file of a sidecar
PathCandidates(info) ==
    (IF info.filename # None
     THEN {PathJoin(DownloadDir, Get(info.filename))} ELSE {})
    \cup (IF info.title # None /\ info.ext # None
          THEN {<<DownloadDir,
                  constructed_filename(Get(info.title),
                                       IF info.channel # None THEN Get(info.channel)
                                       ELSE <<"UnknownChannel">>,
                                       Get(info.ext))>>}
          ELSE {})
    \cup (IF info.ext # None
          THEN {video_path_from_json(DownloadDir, info.stem, Get(info.ext))}
          ELSE {})

\* the extractor has exited 0 and either no sidecar of the directory
\* matches the item's URL, or the one the scan stopped at leads to no file
Degraded ==
    /\ Downloaded
    /\ \/ \A sc \in last.dir_sidecars : ~(sc.ok /\ urls_match(last.url, sc))
       \/ /\ last.matched # None
          /\ \A c \in PathCandidates(Get(last.matched)) : ~PathExists(c, media)

\* C27 (degraded completion): after such a download the item is 'completed'
\* with local_path unset; and trigger_upload for an item that is
\* 'completed' with local_path unset returns the error that the local file
\* path was not found, sends no request and changes nothing.
DegradedCompletion ==
    [][/\ Degraded' =>
            /\ queue'[last'.arg].status = "completed"
            /\ queue'[last'.arg].local_path = None
       /\ (/\ last'.op = "trigger_upload" /\ last'.part = "scope1"
           /\ last'.arg \in DOMAIN queue
           /\ queue[last'.arg].status = "completed"
           /\ queue[last'.arg].local_path = None) =>
              /\ last'.res = "Local file path not found for item"
              /\ last'.calls = <<>>
              /\ queue' = queue /\ uploads' = uploads /\ media' = media]_vars

\* trigger_upload has been refused for an item that a download left
\* 'completed' without a local path although a sidecar matched
DegradedCompletionWitness ==
    /\ last.op = "trigger_upload"
    /\ last.res = "Local file path not found for item"
    /\ queue[last.arg].status = "completed"
    /\ queue[last.arg].title # None

\* C28 (sidecar cleanup frame): a resolver pass removes at most one sidecar
\* from the directory the extractor left; the removed one is a sidecar
\* whose URL matches the item's, the one the scan stopped at; every sidecar
\* that does not match is still there after the pass.
SidecarCleanupFrame ==
    Downloaded =>
        /\ sidecars \subseteq last.dir_sidecars
        /\ Cardinality(last.dir_sidecars \ sidecars) <= 1
        /\ \A sc \in last.dir_sidecars \ sidecars :
             sc.ok /\ urls_match(last.url, sc) /\ last.matched = Some(sc)
        /\ \A sc \in last.dir_sidecars :
             ~(sc.ok /\ urls_match(last.url, sc)) => sc \in sidecars

\* a pass has removed one of two matching sidecars and has left the other
\* and a sidecar of another URL in place
SidecarCleanupFrameWitness ==
    /\ Downloaded
    /\ Cardinality(last.dir_sidecars \ sidecars) = 1
    /\ \E sc \in sidecars : sc.ok /\ urls_match(last.url, sc)
    /\ \E sc \in sidecars : sc.ok /\ ~urls_match(last.url, sc)

(***************************************************************************)
(* SpecPath: one download whose extractor wrote a sidecar with any of the  *)
(* fields the resolver reads present or missing, and any of the media      *)
(* files those fields can lead to.                                         *)
(***************************************************************************)
PathSidecars ==
    {Sidecar(<<"42">>, TRUE, Some(UrlPlain), Some(UrlPlain), filename, title, ext, channel) :
        filename \in {None, Some(<<"", MediaName(<<"7">>, "mp4")>>),
                      Some(<<DownloadDir, MediaName(<<"7">>, "mp4")>>)},
        title \in {None, Some(<<"T">>)},
        ext \in {None, Some("mp4")},
        channel \in {None, Some(<<"C">>)}}

PathMedia ==
    {MediaName(<<"7">>, "mp4"), MediaName(<<"42">>, "mp4"),
     constructed_filename(<<"T">>, <<"C">>, "mp4"),
     constructed_filename(<<"T">>, <<"UnknownChannel">>, "mp4")}

PathRuns == {Wrote({sc}, files) : sc \in PathSidecars, files \in SUBSET PathMedia}

InitPath ==
    /\ queue = <<QueueItem(UrlPlain, "queued", 1)>>
    /\ nextId = 1
    /\ settings = NoSettings
    /\ sidecars = {}
    /\ media = {}
    /\ sched = Sched("scope1", None, TRUE)
    /\ readers = {}
    /\ uploads = {}
    /\ polls = {}
    /\ last = Ret("init", None, "ok")

NextPath ==
    \/ SchedScope1({"ok"})
    \/ SchedScope2
    \/ SchedSpawn
    \/ (sched.pc = "wait" /\ SchedWait(PathRuns))
    \/ SchedCheck
    \/ SchedSleep

SpecPath == InitPath /\ [][NextPath]_vars

\* the path the priority rule names for a sidecar: '_filename' if that
\* file exists, else the path of the template if it exists, else the path
\* of the sidecar with the media extension in place of .info.json if it
\* exists
ClaimedPath(info, files) ==
    LET by_filename == PathJoin(DownloadDir, Get(info.filename))
        by_template ==
            <<DownloadDir,
              constructed_filename(Get(info.title),
                                   IF info.channel # None THEN Get(info.channel)
                                   ELSE <<"UnknownChannel">>,
                                   Get(info.ext))>>
        by_sidecar == video_path_from_json(DownloadDir, info.stem, Get(info.ext))
    IN  IF info.filename # None /\ PathExists(by_filename, files)
        THEN Some(by_filename)
        ELSE IF info.title # None /\ info.ext # None /\ PathExists(by_template, files)
        THEN Some(by_template)
        ELSE IF info.ext # None /\ PathExists(by_sidecar, files)
        THEN Some(by_sidecar)
        ELSE None

\* C29 (path resolution priority): after a download whose resolver found
\* the matching sidecar, local_path is the '_filename' path if it exists,
\* else the template path if it exists, else the sidecar's path with the
\* media extension if it exists, and is unset only if none of the three
\* exists.
PathResolutionPriority ==
    (Downloaded /\ last.matched # None) =>
        queue[last.arg].local_path = ClaimedPath(Get(last.matched), media)

(***************************************************************************)
(* SpecMatch: one download of a URL with or without a video identifier,    *)
(* whose extractor wrote a sidecar with any pair of URL fields.            *)
(***************************************************************************)
UrlReel8 == Url("https://fb.com/reel/8", Some("8"), None)

MatchUrls == {UrlPlain, UrlOther, UrlReel, UrlWatch, UrlReel8}

MatchSidecars ==
    {Sidecar(<<"42">>, TRUE, w, o, None, None, None, None) :
        w \in {None} \cup {Some(u) : u \in MatchUrls},
        o \in {None} \cup {Some(u) : u \in MatchUrls}}

MatchRuns == {Wrote({sc}, {}) : sc \in MatchSidecars}

InitMatch ==
    /\ queue \in {<<QueueItem(url, "queued", 1)>> : url \in MatchUrls}
    /\ nextId = 1
    /\ settings = NoSettings
    /\ sidecars = {}
    /\ media = {}
    /\ sched = Sched("scope1", None, TRUE)
    /\ readers = {}
    /\ uploads = {}
    /\ polls = {}
    /\ last = Ret("init", None, "ok")

NextMatch ==
    \/ SchedScope1({"ok"})
    \/ SchedScope2
    \/ SchedSpawn
    \/ (sched.pc = "wait" /\ SchedWait(MatchRuns))
    \/ SchedCheck
    \/ SchedSleep

SpecMatch == InitMatch /\ [][NextMatch]_vars

\* the matching rule: the sidecar has a URL, and either both URLs hold a
\* video identifier and the two are equal, or the two strings are equal
ClaimedMatch(item_url, info) ==
    /\ json_url(info) # None
    /\ \/ /\ extract_facebook_video_id(item_url) # None
          /\ extract_facebook_video_id(Get(json_url(info))) # None
          /\ extract_facebook_video_id(item_url)
                = extract_facebook_video_id(Get(json_url(info)))
       \/ Get(json_url(info)).text = item_url.text

\* C30 (sidecar URL matching): the sidecar a resolver pass stops at
\* satisfies the matching rule, and a pass stops at no sidecar only when no
\* parsable sidecar of the directory satisfies it; a sidecar without a URL
\* field is never the one the pass stops at.
SidecarUrlMatching ==
    Downloaded =>
        /\ last.matched # None =>
              /\ json_url(Get(last.matched)) # None
              /\ ClaimedMatch(last.url, Get(last.matched))
        /\ last.matched = None =>
              \A sc \in last.dir_sidecars : ~(sc.ok /\ ClaimedMatch(last.url, sc))

\* a pass has stopped at a sidecar whose URL string differs from the
\* item's and holds the same video identifier
SidecarUrlMatchingWitness ==
    /\ Downloaded
    /\ last.matched # None
    /\ Get(json_url(Get(last.matched))).text # last.url.text

\* status and encoding_progress of the item of the step are as before
SameEncodingState(i) ==
    i \in DOMAIN queue =>
        /\ i \in DOMAIN queue'
        /\ queue'[i].status = queue[i].status
        /\ queue'[i].encoding_progress = queue[i].encoding_progress

\* C31 (inconclusive encoding-status changes nothing): when the
\* encoding/status request of a poll cycle fails, cannot be parsed, reports
\* an API error or has no result data, neither that step nor anything the
\* cycle does after it changes the item's status or encoding_progress.
InconclusiveStatusChangesNothing ==
    [][/\ (last'.op = "check_filemoon_readiness" /\ last'.status_calls > 0
           /\ last'.answer.do \in {"nothing", "respawn"}) =>
              SameEncodingState(last'.arg)
       /\ last'.op = "file_info_only" => SameEncodingState(last'.arg)]_vars

(***************************************************************************)
(* SpecProgress: two queued items, automatic uploads to Filemoon, and a    *)
(* database whose calls succeed.  The loop and the uploads each get to run *)
(* again and again (weak fairness): every extractor run ends, every        *)
(* request of an upload is answered.  The polls the loop spawns are not    *)
(* followed.                                                               *)
(***************************************************************************)
InitProgress ==
    /\ queue = <<QueueItem(UrlPlain, "queued", 1), QueueItem(UrlOther, "queued", 2)>>
    /\ nextId = 2
    /\ settings = AppSettings(Some("key"), None, None, None, Some("true"), Some("filemoon"))
    /\ sidecars = {}
    /\ media = {}
    /\ sched = Sched("scope1", None, TRUE)
    /\ readers = {}
    /\ uploads = {}
    /\ polls = {}
    /\ last = Ret("init", None, "ok")

ProgressLoop ==
    \/ SchedScope1({"ok"})
    \/ \E default_dir \in DefaultDirs, mkdir \in DbResults : SchedScope2Io(default_dir, mkdir, "ok")
    \/ SchedSpawn
    \/ (sched.pc = "wait" /\ SchedWait(ExtractorRuns(Get(sched.item).url)))
    \/ SchedCheckDb("ok")
    \/ SchedSleep

FilemoonUploads ==
    \/ \E t \in uploads : UploadStart(t)
    \/ \E t \in uploads : UploadPrecheck(t)
    \/ \E t \in uploads : UploadFmServer(t)
    \/ \E t \in uploads : UploadFmUpload(t)

NextProgress == ProgressLoop \/ FilemoonUploads

FairProgress == WF_vars(ProgressLoop) /\ WF_vars(FilemoonUploads)

SpecProgress == InitProgress /\ [][NextProgress]_vars /\ FairProgress

\* C32 (queue progress): when every extractor run and every upload attempt
\* ends and the loop keeps running, an item that is 'queued' does not stay
\* 'queued' for ever: the loop gets to it, whatever happened to the items
\* before it.
QueueProgress ==
    \A i \in Ids :
        (i \in DOMAIN queue /\ queue[i].status = "queued")
            ~> (i \notin DOMAIN queue \/ queue[i].status # "queued")

(***************************************************************************)
(* SpecTerminal: one queued item, its download, its automatic upload to    *)
(* Filemoon or to Files.vc and the polls that follow, with a database      *)
(* whose calls succeed.  The loop, the uploads and the polls get to run    *)
(* again and again; and a provider that is asked again and again does not  *)
(* answer "still working" for ever (strong fairness of the answers that    *)
(* settle the item).                                                       *)
(***************************************************************************)
TerminalSettings ==
    {AppSettings(Some("key"), Some("key"), None, None, Some("true"), target) :
        target \in {Some("filemoon"), Some("files_vc")}}

InitTerminal ==
    /\ queue = <<QueueItem(UrlPlain, "queued", 1)>>
    /\ nextId = 1
    /\ settings \in TerminalSettings
    /\ sidecars = {}
    /\ media = {}
    /\ sched = Sched("scope1", None, TRUE)
    /\ readers = {}
    /\ uploads = {}
    /\ polls = {}
    /\ last = Ret("init", None, "ok")

NextTerminal == ProgressLoop \/ Uploads \/ Polls

\* a poll step in which the provider's answer settles the item
ProviderSettles ==
    \E p \in polls :
        /\ PollFileInfo(p) \/ PollStatus(p)
        /\ p.id \in DOMAIN queue'
        /\ queue'[p.id].status \in {"encoded", "failed"}

FairTerminal ==
    /\ WF_vars(ProgressLoop)
    /\ WF_vars(Uploads)
    /\ WF_vars(Polls)
    /\ SF_vars(ProviderSettles)

SpecTerminal == InitTerminal /\ [][NextTerminal]_vars /\ FairTerminal

\* C33 (polling reaches a terminal state): an item whose upload has
\* succeeded is polled on the sweeps of the loop until it is 'encoded' or
\* 'failed'; when the provider does not answer "still working" for ever,
\* the item becomes 'encoded' or 'failed'.
PollingReachesTerminal ==
    \A i \in Ids :
        (last.op = "trigger_upload" /\ last.res = "ok" /\ last.arg = i)
            ~> (i \notin DOMAIN queue \/ queue[i].status \in {"encoded", "failed"})

\* C34 (progress range): in every reachable state each item's
\* encoding_progress is unset or an integer from 0 to 100, whatever progress
\* the provider reports.
ProgressRange ==
    \A i \in DOMAIN queue :
        \/ queue[i].encoding_progress = None
        \/ Get(queue[i].encoding_progress) \in 0..ProgressDone

\* the loop is waiting for the extractor of item i: the download has not
\* yet got its terminal status
Waiting(i) == sched.pc = "wait" /\ sched.item # None /\ Get(sched.item).id = i

\* C35 (the progress reader cannot resurrect a finished download): once the
\* executor has written 'completed' or 'failed' for a download, the stdout
\* reader of that download does not write 'downloading' to the item: a
\* progress line sets an item to 'downloading' only while the loop still
\* waits for that item's extractor.
ReaderCannotResurrect ==
    [][\A i \in DOMAIN queue' :
         (last'.op = "stdout" /\ last'.res = "progress" /\ last'.arg = i
          /\ ~Waiting(i)) => queue'[i].status # "downloading"]_vars

PollOps == {"check_filemoon_readiness", "file_info", "file_info_only"}

\* C36 (encoded is stable under polling): once a readiness poll has set an
\* item to 'encoded', no step of a poll for that item, a poll dispatched
\* earlier and still in flight included, sets its status to 'encoding',
\* 'transferring' or 'failed'.
EncodedStableUnderPolling ==
    [][\A i \in DOMAIN queue \cap DOMAIN queue' :
         (queue[i].status = "encoded" /\ last'.op \in PollOps /\ last'.arg = i) =>
             queue'[i].status \notin {"encoding", "transferring", "failed"}]_vars

\* C37 (pick-then-mark is safe): the loop goes on to start the extractor
\* for an item only if, at the marking step, the item still exists and is
\* still 'queued'; a cancel, a status change or a purge between the
\* selection and the marking prevents the download.
PickThenMarkSafe ==
    [][(last'.op = "scope2" /\ last'.res = "downloading") =>
          /\ last'.arg \in DOMAIN queue
          /\ queue[last'.arg].status = "queued"]_vars

(***************************************************************************)
(* SpecDouble: one item that Filemoon is encoding and whose file is still  *)
(* on disk; the poll sweeps and their polls, and trigger_upload commands   *)
(* with the uploads they start.                                            *)
(***************************************************************************)
InitDouble ==
    /\ queue = <<[QueueItem(UrlPlain, "encoding", 1) EXCEPT
                     !.local_path = Some(<<DownloadDir, MediaFile>>),
                     !.filemoon_url = Some("abc123")]>>
    /\ nextId = 1
    /\ settings = AppSettings(Some("key"), None, None, None, None, Some("filemoon"))
    /\ sidecars = {}
    /\ media = {MediaFile}
    /\ sched = Sched("scope1", None, TRUE)
    /\ readers = {}
    /\ uploads = {}
    /\ polls = {}
    /\ last = Ret("init", None, "ok")

NextDouble ==
    \/ SchedScope1({"ok"})
    \/ SchedCheckDb("ok")
    \/ SchedSleep
    \/ Polls
    \/ ManualUpload
    \/ \E t \in uploads : UploadPrecheck(t)
    \/ \E t \in uploads : UploadFmServer(t)
    \/ \E t \in uploads : UploadFmUpload(t)

SpecDouble == InitDouble /\ [][NextDouble]_vars

\* the trigger_upload calls for item i that have passed scope 1
Uploading(i) == {t \in uploads : t.id = i /\ t.pc # "start"}

\* C38 (no double upload of one item): of two trigger_upload calls for one
\* item that run at the same time at most one passes the status check and
\* goes on to the provider: a call passes scope 1 only when no other call
\* for the item is past scope 1 and still running.
NoDoubleUpload ==
    [][(last'.op = "trigger_upload" /\ last'.part = "scope1" /\ last'.res = "pending") =>
          Uploading(last'.arg) = {}]_vars

\* C39 (upload success frame): a trigger_upload call changes only the
\* status, the message and the provider reference of its item: every step
\* of a call, the step in which a successful call stores the reference and
\* returns included, leaves the item's url, title, thumbnail_url,
\* local_path, added_at and encoding_progress as they were, and leaves
\* every other item as it was.
UploadSuccessFrame ==
    [][last'.op = "trigger_upload" =>
          /\ DOMAIN queue' = DOMAIN queue
          /\ \A j \in DOMAIN queue :
                IF j = last'.arg
                THEN queue'[j] = [queue[j] EXCEPT
                                     !.status = queue'[j].status,
                                     !.message = queue'[j].message,
                                     !.filemoon_url = queue'[j].filemoon_url,
                                     !.files_vc_url = queue'[j].files_vc_url]
                ELSE queue'[j] = queue[j]]_vars

\* a call has returned success for an item that has a title, a thumbnail
\* and a local path, with another item in the table
UploadSuccessFrameWitness ==
    /\ last.op = "trigger_upload" /\ last.res = "ok"
    /\ last.arg \in DOMAIN queue
    /\ queue[last.arg].title # None
    /\ queue[last.arg].local_path # None
    /\ queue[last.arg].status \in {"transferring", files_vc_success_status}
    /\ Cardinality(DOMAIN queue) = 2

\* C40 (URL uniqueness across all statuses): after any sequence of
\* add_queue_item, retry, cancel and clear commands no two stored items have
\* the same URL; add_queue_item with a URL that an item of any status holds,
\* 'failed' and 'cancelled' included, returns an error and changes nothing,
\* so a URL is added only when no stored item holds it: after a rejection,
\* only once the holder has been purged.
UrlUniqueness ==
    [][/\ \A i, j \in DOMAIN queue' : queue'[i].url = queue'[j].url => i = j
       /\ last'.op = "add_queue_item" =>
             IF \E i \in DOMAIN queue : queue[i].url = last'.arg
             THEN last'.res # "ok" /\ queue' = queue
             ELSE last'.res = "ok"]_vars

\* an add was rejected although the holder of the URL has failed or was
\* cancelled
UrlUniquenessWitness ==
    /\ last.op = "add_queue_item" /\ last.res # "ok"
    /\ \E i \in DOMAIN queue :
          queue[i].url = last.arg /\ queue[i].status \in {"failed", "cancelled"}

====
